---- MODULE Spec2Model ----
(***************************************************************************)
(* Notification dispatch pipeline of smart-notification-service:           *)
(* the Celery task send_notification_task (notifications/tasks.py), the    *)
(* provider registry and the email provider it dispatches through, the     *)
(* Notification / DeadLetter rows it writes, and the notify ingress that    *)
(* creates a row and enqueues the first job.                                *)
(*                                                                         *)
(* Every persisted write (a Model.save or objects.create) is one step.     *)
(* The work queue is at-least-once: a delivered message may be delivered   *)
(* again.  Attempts for the same notification are serialised by the queue  *)
(* (Spec); attempts for different notifications interleave freely.         *)
(***************************************************************************)
EXTENDS Integers, Sequences, FiniteSets, TLC

VARIABLES
    notifications,  \* table notifications: id -> row
    deadLetters,    \* table dead_letters: set of rows
    queue,          \* work queue: messages [id, retries] not yet (re)delivered
    workers,        \* one running task invocation per worker slot
    log,            \* history: per notification, the attempts made and how they ended
    clock,          \* timezone.now()
    dups,           \* history: redeliveries the work queue has made
    countdown,      \* the delay the autoretry wrapper last passed to Task.retry
    http,           \* the notify request being handled and the last response
    probe,          \* a direct call of a provider function and what it gave
    templates,      \* table templates: name -> row
    apiKeys,        \* table api_keys: id -> row
    keyRequests     \* per client, the API-key request being handled and its response

vars == <<notifications, deadLetters, queue, workers, log, clock, dups,
          countdown, http, probe, templates, apiKeys, keyRequests>>

----------------------------------------------------------------------------
(* Bounds of the model *)

MaxNotifications == 1
MaxDup == 1

----------------------------------------------------------------------------
(* Nullable values (Python None) *)

None == [some |-> FALSE]
Some(v) == [some |-> TRUE, v |-> v]

----------------------------------------------------------------------------
(* tasks.py constants and task options *)

MAX_RETRIES == 3

max_retries == MAX_RETRIES

----------------------------------------------------------------------------
(* models.py *)

STATUS_CHOICES == {"pending", "processing", "sent", "failed", "delivered"}

CHANNEL_CHOICES == {"email", "sms", "whatsapp", "push"}

\* provider_response = models.JSONField(default=dict)
EmptyDict == [empty |-> TRUE]

----------------------------------------------------------------------------
(* Template text.  A text is a sequence of tokens: a literal, a placeholder *)
(* {{ name }}, or an unterminated placeholder (a syntax error).  A rendered *)
(* text is the sequence of its non-empty pieces, so <<>> is the empty      *)
(* string.                                                                 *)

Lit(s) == [k |-> "lit", s |-> s]
Var(s) == [k |-> "var", s |-> s]
Bad(s) == [k |-> "bad", s |-> s]

\* dict.get(name) on a mapping kept as a set of <<name, value>> pairs
HasKey(data, name) == \E p \in data : p[1] = name
Get(data, name) == (CHOOSE p \in data : p[1] = name)[2]

Exc(type, msg) == [type |-> type, msg |-> msg]
Raise(e) == [ok |-> FALSE, e |-> e]
Return(v) == [ok |-> TRUE, v |-> v]

\* str(e)
str(e) == e.msg

RECURSIVE RenderTokens(_, _)
RenderTokens(tokens, data) ==
    IF tokens = <<>> THEN <<>>
    ELSE LET t == Head(tokens)
             piece == IF t.k = "lit" THEN t.s
                      ELSE IF HasKey(data, t.s) THEN Get(data, t.s)
                      ELSE ""      \* jinja2's default Undefined renders as ''
             rest == RenderTokens(Tail(tokens), data)
         IN  IF piece = "" THEN rest ELSE <<piece>> \o rest

\* Variant: an unterminated placeholder is passed over, no syntax error
Jinja2Render_NoSyntaxError(text, data) ==
    IF ~text.some
    THEN Raise(Exc("TypeError", <<"Can't compile non template nodes">>))
    ELSE Return(RenderTokens(text.v, data))

\* Jinja2Template(text).render(**template_data); text is None or a token sequence
Jinja2Render(text, data) ==
    IF ~text.some
    THEN Raise(Exc("TypeError", <<"Can't compile non template nodes">>))
    ELSE IF \E i \in 1..Len(text.v) : text.v[i].k = "bad"
    THEN Raise(Exc("TemplateSyntaxError", <<"unexpected end of template">>))
    ELSE Return(RenderTokens(text.v, data))

\* `if x:` on an optional text: None and '' are falsy
Truthy(text) == text.some /\ text.v # <<>>

----------------------------------------------------------------------------
(* Template rows (notifications/models.py Template): the rows the table   *)
(* holds at the start                                                      *)

TemplateRows ==
    [welcome |-> [subject |-> Some(<<Lit("Welcome")>>),
                  body |-> Some(<<Lit("Hi "), Var("name")>>),
                  is_active |-> TRUE],
     retired |-> [subject |-> Some(<<Lit("Bye")>>),
                  body |-> Some(<<Lit("Bye "), Var("name")>>),
                  is_active |-> FALSE]]

TemplateNames == DOMAIN TemplateRows

\* _render_notification(notification) -> (subject, body); notification is
\* the object the task loaded, its template the related Template object or
\* None
_render_notification(n) ==
    LET template_data == n.data.template_data
        src == IF n.template.some
               THEN [subject |-> n.template.v.subject,
                     body |-> n.template.v.body]
               ELSE [subject |-> n.data.inline_subject,
                     \* data.get('inline_body', ''): the key is always stored
                     body |-> n.data.inline_body]
        body == Jinja2Render(src.body, template_data)
        subject == IF Truthy(src.subject)
                   THEN Jinja2Render(src.subject, template_data)
                   ELSE Return(None)
    IN  IF ~body.ok THEN body
        ELSE IF ~subject.ok THEN subject
        ELSE Return([subject |-> IF Truthy(src.subject) THEN Some(subject.v) ELSE None,
                     body |-> body.v])

----------------------------------------------------------------------------
(* providers/base.py, providers/email_provider.py, providers/__init__.py *)

\* settings.DEFAULT_FROM_EMAIL
DEFAULT_FROM_EMAIL == Some("noreply@example.com")

\* django.conf.settings as the provider reads it
settings == [DEFAULT_FROM_EMAIL |-> DEFAULT_FROM_EMAIL]

\* (channel or ""): None counts as the empty string
OrEmpty(channel) == IF channel.some THEN channel.v ELSE ""

\* str.lower() on the channel identifiers of the model
Lower(channel) ==
    CASE channel \in {"EMAIL", "Email"} -> "email"
      [] channel = "SMS" -> "sms"
      [] channel = "WhatsApp" -> "whatsapp"
      [] channel = "PUSH" -> "push"
      [] OTHER -> channel

\* ProviderResult.to_dict
to_dict(r) ==
    [provider |-> r.provider,
     status |-> r.status,
     message_id |-> r.message_id,
     detail |-> r.detail,
     raw |-> IF r.raw.some THEN r.raw.v ELSE EmptyDict]

\* What the mail transport does with one message: raise an exception with
\* the text `error`, or return the number of recipients it accepted
TransportOutcomes ==
    {[raises |-> TRUE, sent_count |-> 0, error |-> <<"transport error">>],
     [raises |-> FALSE, sent_count |-> 0, error |-> <<>>],
     [raises |-> FALSE, sent_count |-> 1, error |-> <<>>]}

\* Variant: the check of the body is missing
EmailProvider_send_NoBodyCheck(conf, to, subject, body, channel, transport) ==
    IF channel # "email"
    THEN [ok |-> FALSE, handed |-> 0,
          e |-> Exc("ValueError", <<"EmailProvider can only handle 'email' channel, got", channel>>)]
    ELSE IF to = ""
    THEN [ok |-> FALSE, handed |-> 0,
          e |-> Exc("ValueError", <<"Recipient email address is required">>)]
    ELSE IF ~conf.DEFAULT_FROM_EMAIL.some \/ conf.DEFAULT_FROM_EMAIL = Some("")
    THEN [ok |-> FALSE, handed |-> 0,
          e |-> Exc("ValueError", <<"DEFAULT_FROM_EMAIL is not configured">>)]
    ELSE IF transport.raises
    THEN [ok |-> FALSE, handed |-> 1,
          e |-> Exc("SMTPException", transport.error)]
    ELSE [ok |-> TRUE, handed |-> 1,
          v |-> to_dict([provider |-> "email",
                         status |-> IF transport.sent_count > 0 THEN "sent" ELSE "not_sent",
                         message_id |-> None,
                         detail |-> IF transport.sent_count > 0
                                    THEN "Sent to 1 recipient"
                                    ELSE "No recipients accepted",
                         raw |-> Some([sent_count |-> transport.sent_count,
                                       backend |-> "EmailBackend"])])]

\* EmailProvider.send(to, subject, body, channel) under the settings conf;
\* `transport` is the outcome of message.send(fail_silently=False).  handed:
\* the number of times the message was passed to the transport.
EmailProvider_send(conf, to, subject, body, channel, transport) ==
    IF channel # "email"
    THEN [ok |-> FALSE, handed |-> 0,
          e |-> Exc("ValueError", <<"EmailProvider can only handle 'email' channel, got", channel>>)]
    ELSE IF to = ""
    THEN [ok |-> FALSE, handed |-> 0,
          e |-> Exc("ValueError", <<"Recipient email address is required">>)]
    ELSE IF body = <<>>
    THEN [ok |-> FALSE, handed |-> 0,
          e |-> Exc("ValueError", <<"Email body is required">>)]
    ELSE IF ~conf.DEFAULT_FROM_EMAIL.some \/ conf.DEFAULT_FROM_EMAIL = Some("")
    THEN [ok |-> FALSE, handed |-> 0,
          e |-> Exc("ValueError", <<"DEFAULT_FROM_EMAIL is not configured">>)]
    ELSE IF transport.raises
    THEN [ok |-> FALSE, handed |-> 1,
          e |-> Exc("SMTPException", transport.error)]
    ELSE [ok |-> TRUE, handed |-> 1,
          v |-> to_dict([provider |-> "email",
                         status |-> IF transport.sent_count > 0 THEN "sent" ELSE "not_sent",
                         message_id |-> None,
                         detail |-> IF transport.sent_count > 0
                                    THEN "Sent to 1 recipient"
                                    ELSE "No recipients accepted",
                         raw |-> Some([sent_count |-> transport.sent_count,
                                       backend |-> "EmailBackend"])])]

\* Variant: the channel is compared as given, without lower()
get_provider_NoLower(channel) ==
    LET normalized == OrEmpty(channel)
    IN  IF normalized = "email" THEN Return("EmailProvider")
        ELSE IF normalized \in {"sms", "whatsapp", "push"}
        THEN Raise(Exc("NotImplementedError",
                       <<"Provider for channel is not implemented yet.", normalized>>))
        ELSE Raise(Exc("ValueError",
                       <<"Unsupported channel:", IF channel.some THEN channel.v ELSE "None">>))

\* get_provider(channel): the provider's name, or the exception raised;
\* channel is a string or None
get_provider(channel) ==
    LET normalized == Lower(OrEmpty(channel))
    IN  IF normalized = "email" THEN Return("EmailProvider")
        ELSE IF normalized \in {"sms", "whatsapp", "push"}
        THEN Raise(Exc("NotImplementedError",
                       <<"Provider for channel is not implemented yet.", normalized>>))
        ELSE Raise(Exc("ValueError",
                       <<"Unsupported channel:", IF channel.some THEN channel.v ELSE "None">>))

\* The try block of send_notification_task, lines 57-70: render, resolve the
\* provider, send.  called: provider.send was invoked.
TrySend(n, transport) ==
    LET rendered == _render_notification(n)
        provider == get_provider(Some(n.channel))
    IN  IF ~rendered.ok
        THEN [ok |-> FALSE, called |-> FALSE, handed |-> 0, e |-> rendered.e]
        ELSE IF ~provider.ok
        THEN [ok |-> FALSE, called |-> FALSE, handed |-> 0, e |-> provider.e]
        ELSE LET r == EmailProvider_send(settings, n.to, rendered.v.subject,
                                         rendered.v.body, n.channel, transport)
             IN  IF r.ok
                 THEN [ok |-> TRUE, called |-> TRUE, handed |-> r.handed, v |-> r.v]
                 ELSE [ok |-> FALSE, called |-> TRUE, handed |-> r.handed, e |-> r.e]

----------------------------------------------------------------------------
(* Notify requests (views.py NotifyView.post, serializers.py               *)
(* NotifyRequestSerializer)                                                *)

Req(channel, to, template, subject, body, data) ==
    [channel |-> channel, to |-> to, template |-> template,
     subject |-> subject, body |-> body, data |-> data]

Hello == Some(<<Lit("Hello")>>)

Requests ==
    { Req("email", "a@b.com", None, Hello, Some(<<Lit("Hi "), Var("name")>>), {<<"name", "Sam">>}),
      Req("email", "a@b.com", Some("welcome"), None, None, {}),
      Req("email", "a@b.com", None, Hello, Some(<<Lit("Hi "), Bad("{{name")>>), {}),
      Req("sms", "+1234567890", None, None, Some(<<Lit("Hi")>>), {}),
      Req("email", "a@b.com", Some("retired"), None, None, {}),
      Req("email", "not-an-address", None, Hello, Some(<<Lit("Hi")>>), {}),
      Req("email", "a@b.com", None, None, None, {}),
      Req("carrier-pigeon", "a@b.com", None, Hello, Some(<<Lit("Hi")>>), {}) }

\* _is_valid_email / _is_valid_phone on the recipients of the model
_is_valid_email(to) == to \in {"a@b.com"}
_is_valid_phone(to) == to \in {"+1234567890"}

\* Variant: the recipient is not checked against the channel
is_valid_AnyRecipient(req) ==
    /\ req.channel \in CHANNEL_CHOICES
    /\ req.to # ""
    /\ req.template.some \/ Truthy(req.body)
    /\ ~(req.channel = "email" /\ Truthy(req.body) /\ ~Truthy(req.subject))

\* NotifyRequestSerializer: the field validators and validate()
is_valid(req) ==
    /\ req.channel \in CHANNEL_CHOICES
    /\ req.to # ""
    /\ req.template.some \/ Truthy(req.body)
    /\ ~(req.channel = "email" /\ Truthy(req.body) /\ ~Truthy(req.subject))
    /\ req.channel = "email" => _is_valid_email(req.to)
    /\ req.channel \in {"sms", "whatsapp"} => _is_valid_phone(req.to)

\* Template.objects.get(tenant=tenant, name=template_name, is_active=True) succeeds
TemplateResolves(req) ==
    req.template.some => /\ req.template.v \in DOMAIN templates
                         /\ templates[req.template.v].is_active

\* Notification.objects.create(...) in NotifyView.post
NewNotification(tenant, req) ==
    [tenant |-> tenant,
     channel |-> req.channel,
     to |-> req.to,
     template |-> req.template,
     data |-> [template_data |-> req.data,
               inline_subject |-> req.subject,
               inline_body |-> req.body],
     status |-> "pending",
     provider_response |-> EmptyDict,
     error_message |-> None,
     sent_at |-> None]

----------------------------------------------------------------------------
(* State *)

\* An identifier that matches no notification
UnknownId == MaxNotifications + 1

\* Worker slots: one worker process consumes the queue
Workers == {"w1"}

\* template: the Template object loaded together with the notification
Idle == [pc |-> "idle", id |-> UnknownId, retries |-> 0, e |-> None, result |-> EmptyDict,
         template |-> None]

\* Notification.objects.select_related('tenant', 'template').get(id=...): the
\* row with its template row joined in, as they are at the time of the query
select_related(n) ==
    [n EXCEPT !.template = IF @.some THEN Some(templates[@.v]) ELSE None]

Msg(id, retries) == [id |-> id, retries |-> retries]

Busy(id) == \E w \in Workers : workers[w].pc # "idle" /\ workers[w].id = id

DeadLettersOf(id) == {d \in deadLetters : d.notification = id}

\* History of one notification: attempts that reached the try block, calls of
\* provider.send, calls that raised, the last result provider.send returned,
\* how the last finished job ended (with its retry counter), and whether the
\* status 'sent' was ever written
NoAttempts ==
    [attempts |-> 0, calls |-> 0, raised |-> 0, returned |-> EmptyDict,
     last |-> [retries |-> 0, outcome |-> "none"], ever_sent |-> FALSE]

\* No notify request is being handled and none has been answered
NoRequest == [pc |-> "idle", notification |-> None, id |-> UnknownId, response |-> None]

\* Rows of the table api_keys (tenants/models.py): the tenant, the raw key
\* whose hash is stored in key_hash, and is_active. Tenant acme has created
\* two keys and tenant globex one; both tenants are active
ApiKeyRows ==
    << [tenant |-> "acme", key |-> "k1", is_active |-> TRUE],
       [tenant |-> "acme", key |-> "k2", is_active |-> TRUE],
       [tenant |-> "globex", key |-> "k3", is_active |-> TRUE] >>

\* Clients that send requests to the API-key endpoints at the same time
KeyClients == {"c1", "c2"}

\* No API-key request of the client is being handled and none was answered;
\* tenant and api_key are request.tenant and request.api_key
NoKeyRequest ==
    [pc |-> "idle", tenant |-> None, api_key |-> None, pk |-> 0, status_code |-> 0]

Finished(id, retries, outcome) ==
    [log EXCEPT ![id].last = [retries |-> retries, outcome |-> outcome]]

Init ==
    /\ notifications = <<>>
    /\ deadLetters = {}
    /\ queue = {}
    /\ workers = [w \in Workers |-> Idle]
    /\ log = <<>>
    /\ clock = 1
    /\ dups = 0
    /\ countdown = None
    /\ http = NoRequest
    /\ probe = None
    /\ templates = TemplateRows
    /\ apiKeys = ApiKeyRows
    /\ keyRequests = [c \in KeyClients |-> NoKeyRequest]

----------------------------------------------------------------------------
(* Ingress: NotifyView.post *)

Notify(req) ==
    /\ Len(notifications) < MaxNotifications
    /\ is_valid(req)
    /\ TemplateResolves(req)
    /\ LET id == Len(notifications) + 1
       IN  /\ notifications' = Append(notifications, NewNotification("acme", req))
           /\ log' = Append(log, NoAttempts)
           \* send_notification_task.delay(str(notification.id))
           /\ queue' = queue \cup {Msg(id, 0)}
    /\ UNCHANGED <<deadLetters, workers, clock, dups, countdown, http, probe, templates,
                   apiKeys, keyRequests>>

\* A caller enqueues a job whose identifier matches no notification
EnqueueUnknown ==
    /\ Msg(UnknownId, 0) \notin queue
    /\ ~Busy(UnknownId)
    /\ queue' = queue \cup {Msg(UnknownId, 0)}
    /\ UNCHANGED <<notifications, deadLetters, workers, log, clock, dups, countdown, http, probe, templates,
                   apiKeys, keyRequests>>

----------------------------------------------------------------------------
(* The dispatcher: send_notification_task, one action per persisted write  *)

\* Variant: the guard tests 'sent' alone
AlreadyProcessed_SentOnly(status) == status = "sent"

\* line 49: if notification.status in ['sent', 'delivered']
AlreadyProcessed(status) == status \in {"sent", "delivered"}

\* Variant: gives up one retry early
ShouldDeadLetter_OffByOne(retry_count) == retry_count >= MAX_RETRIES - 1

\* Variant: strict comparison, the last attempt re-raises
ShouldDeadLetter_Strict(retry_count) == retry_count > MAX_RETRIES

\* line 92: if retry_count >= MAX_RETRIES
ShouldDeadLetter(retry_count) == retry_count >= MAX_RETRIES

\* Celery's autoretry_for wrapper on an exception leaving the task:
\* Task.retry re-sends the message with retries + 1 unless that exceeds
\* max_retries
Autoretry(id, retries) ==
    IF retries + 1 > max_retries THEN {} ELSE {Msg(id, retries + 1)}

\* Variant: Notification.DoesNotExist is not caught and reaches the autoretry
\* wrapper
Start_DoesNotExistRaises(w, m, redeliver) ==
    /\ workers[w].pc = "idle"
    /\ m \in queue
    /\ IF redeliver
       THEN dups < MaxDup /\ dups' = dups + 1
       ELSE dups' = dups
    /\ queue' = (IF redeliver THEN queue ELSE queue \ {m})
                   \cup (IF m.id \notin DOMAIN notifications
                         THEN Autoretry(m.id, m.retries) ELSE {})
    /\ IF m.id \notin DOMAIN notifications
       THEN workers' = workers /\ log' = log
       ELSE IF AlreadyProcessed(notifications[m.id].status)
       THEN workers' = workers /\ log' = Finished(m.id, m.retries, "skipped")
       ELSE /\ workers' = [workers EXCEPT ![w] =
                  [Idle EXCEPT !.pc = "mark", !.id = m.id, !.retries = m.retries,
                               !.template = select_related(notifications[m.id]).template]]
            /\ log' = log
    /\ UNCHANGED <<notifications, deadLetters, clock, countdown, http, probe, templates,
                   apiKeys, keyRequests>>

\* The work queue hands message m to worker w, which runs lines 40-51: load
\* the row, return if it is missing or already processed.  redeliver: the
\* at-least-once queue keeps the message and will deliver it again.
Start(w, m, redeliver) ==
    /\ workers[w].pc = "idle"
    /\ m \in queue
    /\ IF redeliver
       THEN dups < MaxDup /\ dups' = dups + 1 /\ queue' = queue
       ELSE dups' = dups /\ queue' = queue \ {m}
    /\ IF m.id \notin DOMAIN notifications
       THEN workers' = workers /\ log' = log
       ELSE IF AlreadyProcessed(notifications[m.id].status)
       THEN workers' = workers /\ log' = Finished(m.id, m.retries, "skipped")
       ELSE /\ workers' = [workers EXCEPT ![w] =
                  [Idle EXCEPT !.pc = "mark", !.id = m.id, !.retries = m.retries,
                               !.template = select_related(notifications[m.id]).template]]
            /\ log' = log
    /\ UNCHANGED <<notifications, deadLetters, clock, countdown, http, probe, templates,
                   apiKeys, keyRequests>>

\* lines 54-55: status = 'processing'; save(update_fields=['status', ...])
MarkProcessing(w) ==
    /\ workers[w].pc = "mark"
    /\ notifications' = [notifications EXCEPT ![workers[w].id].status = "processing"]
    /\ workers' = [workers EXCEPT ![w].pc = "send"]
    /\ UNCHANGED <<deadLetters, queue, log, clock, dups, countdown, http, probe, templates,
                   apiKeys, keyRequests>>

\* lines 57-70 and the except clause's binding of e: render, resolve the
\* provider, call provider.send
Send(w, transport) ==
    /\ workers[w].pc = "send"
    /\ LET id == workers[w].id
           notification == [notifications[id] EXCEPT !.template = workers[w].template]
           r == TrySend(notification, transport)
       IN  /\ log' = [log EXCEPT ![id] =
                    [@ EXCEPT !.attempts = @ + 1,
                              !.calls = @ + (IF r.called THEN 1 ELSE 0),
                              !.raised = @ + (IF r.called /\ ~r.ok THEN 1 ELSE 0),
                              !.returned = IF r.ok THEN r.v ELSE @]]
           /\ workers' = [workers EXCEPT ![w] =
                 IF r.ok THEN [@ EXCEPT !.pc = "save_sent", !.result = r.v]
                 ELSE [@ EXCEPT !.pc = "save_error", !.e = Some(r.e)]]
    /\ UNCHANGED <<notifications, deadLetters, queue, clock, dups, countdown, http, probe, templates,
                   apiKeys, keyRequests>>

\* Variant: provider_response left out of update_fields
SaveSent_NoResponse(w) ==
    /\ workers[w].pc = "save_sent"
    /\ notifications' = [notifications EXCEPT ![workers[w].id] =
          [@ EXCEPT !.status = "sent", !.sent_at = Some(clock)]]
    /\ clock' = clock + 1
    /\ log' = [Finished(workers[w].id, workers[w].retries, "sent")
                 EXCEPT ![workers[w].id].ever_sent = TRUE]
    /\ workers' = [workers EXCEPT ![w] = Idle]
    /\ UNCHANGED <<deadLetters, queue, dups, countdown, http, probe, templates, apiKeys, keyRequests>>

\* Variant: sent_at left out of the success write
SaveSent_NoSentAt(w) ==
    /\ workers[w].pc = "save_sent"
    /\ notifications' = [notifications EXCEPT ![workers[w].id] =
          [@ EXCEPT !.status = "sent", !.provider_response = workers[w].result]]
    /\ clock' = clock + 1
    /\ log' = [Finished(workers[w].id, workers[w].retries, "sent")
                 EXCEPT ![workers[w].id].ever_sent = TRUE]
    /\ workers' = [workers EXCEPT ![w] = Idle]
    /\ UNCHANGED <<deadLetters, queue, dups, countdown, http, probe, templates, apiKeys, keyRequests>>

\* Variant: a result whose status is not 'sent' is stored as a failure
SaveSent_ChecksResult(w) ==
    /\ workers[w].pc = "save_sent"
    /\ notifications' = [notifications EXCEPT ![workers[w].id] =
          IF workers[w].result.status = "sent"
          THEN [@ EXCEPT !.status = "sent",
                         !.sent_at = Some(clock),
                         !.provider_response = workers[w].result]
          ELSE [@ EXCEPT !.status = "failed",
                         !.provider_response = workers[w].result]]
    /\ clock' = clock + 1
    /\ log' = [Finished(workers[w].id, workers[w].retries, "sent")
                 EXCEPT ![workers[w].id].ever_sent = TRUE]
    /\ workers' = [workers EXCEPT ![w] = Idle]
    /\ UNCHANGED <<deadLetters, queue, dups, countdown, http, probe, templates, apiKeys, keyRequests>>

\* Variant: the success write resets error_message
SaveSent_ClearsError(w) ==
    /\ workers[w].pc = "save_sent"
    /\ notifications' = [notifications EXCEPT ![workers[w].id] =
          [@ EXCEPT !.status = "sent",
                    !.sent_at = Some(clock),
                    !.provider_response = workers[w].result,
                    !.error_message = None]]
    /\ clock' = clock + 1
    /\ log' = [Finished(workers[w].id, workers[w].retries, "sent")
                 EXCEPT ![workers[w].id].ever_sent = TRUE]
    /\ workers' = [workers EXCEPT ![w] = Idle]
    /\ UNCHANGED <<deadLetters, queue, dups, countdown, http, probe, templates, apiKeys, keyRequests>>

\* lines 73-78: the success write
SaveSent(w) ==
    /\ workers[w].pc = "save_sent"
    /\ notifications' = [notifications EXCEPT ![workers[w].id] =
          [@ EXCEPT !.status = "sent",
                    !.sent_at = Some(clock),
                    !.provider_response = workers[w].result]]
    /\ clock' = clock + 1
    /\ log' = [Finished(workers[w].id, workers[w].retries, "sent")
                 EXCEPT ![workers[w].id].ever_sent = TRUE]
    /\ workers' = [workers EXCEPT ![w] = Idle]
    /\ UNCHANGED <<deadLetters, queue, dups, countdown, http, probe, templates, apiKeys, keyRequests>>

\* Variant: an error message already stored is kept
SaveError_KeepFirst(w) ==
    /\ workers[w].pc = "save_error"
    /\ notifications' = [notifications EXCEPT ![workers[w].id].error_message =
          IF @.some THEN @ ELSE Some(str(workers[w].e.v))]
    /\ workers' = [workers EXCEPT ![w].pc = "decide"]
    /\ UNCHANGED <<deadLetters, queue, log, clock, dups, countdown, http, probe, templates,
                   apiKeys, keyRequests>>

\* lines 86-87: error_message = str(e); save(update_fields=['error_message', ...])
SaveError(w) ==
    /\ workers[w].pc = "save_error"
    /\ notifications' = [notifications EXCEPT ![workers[w].id].error_message =
          Some(str(workers[w].e.v))]
    /\ workers' = [workers EXCEPT ![w].pc = "decide"]
    /\ UNCHANGED <<deadLetters, queue, log, clock, dups, countdown, http, probe, templates,
                   apiKeys, keyRequests>>

\* line 14: declared, read by no code
RETRY_DELAYS == <<60, 300, 900>>

\* lines 20-22: retry_backoff=True is the factor 1 (int(max(1.0, True)))
retry_backoff == 1

retry_backoff_max == 900

retry_jitter == TRUE

\* Variant: max() where the interval is capped
get_exponential_backoff_interval_Max(factor, retries, maximum, full_jitter) ==
    LET nominal == IF maximum >= factor * 2^retries THEN maximum ELSE factor * 2^retries
    IN  IF full_jitter THEN 0..nominal ELSE {nominal}

\* Celery's get_exponential_backoff_interval, the countdowns it can return:
\* min(maximum, factor * 2 ** retries), or with full jitter
\* random.randrange(that + 1)
get_exponential_backoff_interval(factor, retries, maximum, full_jitter) ==
    LET nominal == IF maximum <= factor * 2^retries THEN maximum ELSE factor * 2^retries
    IN  IF full_jitter THEN 0..nominal ELSE {nominal}

\* lines 95-97: retry_count < MAX_RETRIES, re-raise
Reraise(w) ==
    /\ workers[w].pc = "decide"
    /\ ~ShouldDeadLetter(workers[w].retries)
    /\ queue' = queue \cup Autoretry(workers[w].id, workers[w].retries)
    /\ log' = Finished(workers[w].id, workers[w].retries, "retry")
    /\ workers' = [workers EXCEPT ![w] = Idle]
    /\ UNCHANGED <<notifications, deadLetters, clock, dups, http, probe, templates,
                   apiKeys, keyRequests>>

\* The re-raise, the delay of the retry left out
RaiseForRetry(w) ==
    /\ Reraise(w)
    /\ UNCHANGED countdown

\* The re-raise with the countdown the autoretry wrapper passes to Task.retry;
\* nominal: the countdown before jitter is applied
RaiseForRetryIn(w) ==
    /\ Reraise(w)
    /\ \E delay \in get_exponential_backoff_interval(retry_backoff, workers[w].retries,
                                                      retry_backoff_max, retry_jitter),
          nominal \in get_exponential_backoff_interval(retry_backoff, workers[w].retries,
                                                        retry_backoff_max, FALSE) :
          countdown' = Some([id |-> workers[w].id, retries |-> workers[w].retries,
                             delay |-> delay, nominal |-> nominal])

\* Variant: the update is not restricted to the notification of the attempt
MarkFailed_AllRows(w) ==
    /\ workers[w].pc = "decide"
    /\ ShouldDeadLetter(workers[w].retries)
    /\ notifications' = [id \in DOMAIN notifications |->
                            [notifications[id] EXCEPT !.status = "failed"]]
    /\ workers' = [workers EXCEPT ![w].pc = "dead_letter"]
    /\ UNCHANGED <<deadLetters, queue, log, clock, dups, countdown, http, probe, templates,
                   apiKeys, keyRequests>>

\* lines 92-94, 137-138: _move_to_dead_letter writes status = 'failed'
MarkFailed(w) ==
    /\ workers[w].pc = "decide"
    /\ ShouldDeadLetter(workers[w].retries)
    /\ notifications' = [notifications EXCEPT ![workers[w].id].status = "failed"]
    /\ workers' = [workers EXCEPT ![w].pc = "dead_letter"]
    /\ UNCHANGED <<deadLetters, queue, log, clock, dups, countdown, http, probe, templates,
                   apiKeys, keyRequests>>

\* Variant: a plain foreign key, no unique constraint
DeadLetter_create_NoUnique(rows, notification, reason, retry_count) ==
    Return(rows \cup {[id |-> Cardinality(rows) + 1,
                       notification |-> notification,
                       reason |-> reason,
                       retry_count |-> retry_count]})

\* DeadLetter.objects.create(notification=..., reason=..., retry_count=...):
\* the OneToOneField is a unique constraint, a second row for the same
\* notification raises IntegrityError
DeadLetter_create(rows, notification, reason, retry_count) ==
    IF \E d \in rows : d.notification = notification
    THEN Raise(Exc("IntegrityError", <<"UNIQUE constraint failed: dead_letters.notification_id">>))
    ELSE Return(rows \cup {[id |-> Cardinality(rows) + 1,
                            notification |-> notification,
                            reason |-> reason,
                            retry_count |-> retry_count]})

\* lines 140-144: the Dead-Letter row; an IntegrityError leaves the task and
\* reaches the autoretry wrapper
CreateDeadLetter(w) ==
    /\ workers[w].pc = "dead_letter"
    /\ LET r == DeadLetter_create(deadLetters, workers[w].id,
                                  str(workers[w].e.v), workers[w].retries)
       IN  IF r.ok
           THEN /\ deadLetters' = r.v
                /\ queue' = queue
                /\ log' = Finished(workers[w].id, workers[w].retries, "dead_letter")
           ELSE /\ deadLetters' = deadLetters
                /\ queue' = queue \cup Autoretry(workers[w].id, workers[w].retries)
                /\ log' = Finished(workers[w].id, workers[w].retries, "integrity_error")
    /\ workers' = [workers EXCEPT ![w] = Idle]
    /\ UNCHANGED <<notifications, clock, dups, countdown, http, probe, templates, apiKeys, keyRequests>>

----------------------------------------------------------------------------
(* Specification: the work queue never runs two attempts for the same      *)
(* notification at once                                                    *)

Deliver(w, m, redeliver) ==
    /\ ~Busy(m.id)
    /\ Start(w, m, redeliver)

Next ==
    \/ \E req \in Requests : Notify(req)
    \/ \E w \in Workers, m \in queue, redeliver \in BOOLEAN : Deliver(w, m, redeliver)
    \/ \E w \in Workers : MarkProcessing(w)
    \/ \E w \in Workers, transport \in TransportOutcomes : Send(w, transport)
    \/ \E w \in Workers : SaveSent(w)
    \/ \E w \in Workers : SaveError(w)
    \/ \E w \in Workers : RaiseForRetry(w)
    \/ \E w \in Workers : MarkFailed(w)
    \/ \E w \in Workers : CreateDeadLetter(w)

Spec == Init /\ [][Next]_vars

----------------------------------------------------------------------------
(* Specification of the dispatcher alone, over any stored row: the table   *)
(* holds one notification with any status of STATUS_CHOICES and any        *)
(* channel identifier, and the queue one job for it with any retry counter  *)

StoredChannels == {"email", "EMAIL", "sms", "carrier-pigeon"}

StoredResult ==
    to_dict([provider |-> "email", status |-> "sent", message_id |-> None,
             detail |-> "Sent to 1 recipient",
             raw |-> Some([sent_count |-> 1, backend |-> "EmailBackend"])])

StoredRow(status, channel) ==
    [NewNotification("acme", Req(channel, "a@b.com", None, Hello,
                         Some(<<Lit("Hi "), Var("name")>>), {<<"name", "Sam">>}))
     EXCEPT !.status = status,
            !.sent_at = IF status \in {"sent", "delivered"} THEN Some(0) ELSE None,
            !.provider_response =
                IF status \in {"sent", "delivered"} THEN StoredResult ELSE EmptyDict,
            !.error_message =
                IF status = "failed" THEN Some(<<"transport error">>) ELSE None]

InitStored ==
    /\ \E status \in STATUS_CHOICES, channel \in StoredChannels :
          /\ notifications = <<StoredRow(status, channel)>>
          /\ deadLetters = IF status = "failed"
                           THEN {[id |-> 1, notification |-> 1,
                                  reason |-> <<"transport error">>,
                                  retry_count |-> MAX_RETRIES]}
                           ELSE {}
    /\ \E retries \in 0..MAX_RETRIES : queue = {Msg(1, retries)}
    /\ workers = [w \in Workers |-> Idle]
    /\ log = <<[NoAttempts EXCEPT !.ever_sent = notifications[1].status = "sent"]>>
    /\ clock = 1
    /\ dups = 0
    /\ countdown = None
    /\ http = NoRequest
    /\ probe = None
    /\ templates = TemplateRows
    /\ apiKeys = ApiKeyRows
    /\ keyRequests = [c \in KeyClients |-> NoKeyRequest]

NextStored ==
    \/ EnqueueUnknown
    \/ \E w \in Workers, m \in queue, redeliver \in BOOLEAN : Deliver(w, m, redeliver)
    \/ \E w \in Workers : MarkProcessing(w)
    \/ \E w \in Workers, transport \in TransportOutcomes : Send(w, transport)
    \/ \E w \in Workers : SaveSent(w)
    \/ \E w \in Workers : SaveError(w)
    \/ \E w \in Workers : RaiseForRetry(w)
    \/ \E w \in Workers : MarkFailed(w)
    \/ \E w \in Workers : CreateDeadLetter(w)

SpecStored == InitStored /\ [][NextStored]_vars

----------------------------------------------------------------------------
(* Specification with the delay of every retry: each job is delivered once  *)

NextBackoff ==
    \/ \E req \in Requests : Notify(req)
    \/ \E w \in Workers, m \in queue : Deliver(w, m, FALSE)
    \/ \E w \in Workers : MarkProcessing(w)
    \/ \E w \in Workers, transport \in TransportOutcomes : Send(w, transport)
    \/ \E w \in Workers : SaveSent(w)
    \/ \E w \in Workers : SaveError(w)
    \/ \E w \in Workers : RaiseForRetryIn(w)
    \/ \E w \in Workers : MarkFailed(w)
    \/ \E w \in Workers : CreateDeadLetter(w)

SpecBackoff == Init /\ [][NextBackoff]_vars

----------------------------------------------------------------------------
(* Specification of NotifyView.post step by step: the checks and the       *)
(* create, the enqueue, the response; each job is delivered once           *)

\* request.tenant as the authentication middleware leaves it
Tenants == {None, Some("acme")}

IngressRequests ==
    Requests \cup
    { Req("email", "a@b.com", Some("no-such-template"), None, None, {}),
      Req("sms", "12345", None, None, Some(<<Lit("Hi")>>), {}) }

\* rest_framework Response(data, status=...)
Response(data, status) == [data |-> data, status_code |-> status]

\* lines 36-76: the response of a request that post() refuses, None if it
\* goes on to create the notification
Refusal(tenant, req) ==
    IF ~tenant.some
    THEN Some(Response([error |-> "Authentication required"], 401))
    ELSE IF ~is_valid(req)
    THEN Some(Response([error |-> "invalid"], 400))
    ELSE IF ~TemplateResolves(req)
    THEN Some(Response([error |-> "not found or inactive"], 404))
    ELSE None

\* lines 35-90: authentication, validation, template lookup and
\* Notification.objects.create
Post(tenant, req) ==
    /\ http.pc = "idle"
    /\ IF Refusal(tenant, req).some
       THEN /\ http' = [NoRequest EXCEPT !.response = Refusal(tenant, req)]
            /\ UNCHANGED <<notifications, log, templates>>
       ELSE /\ Len(notifications) < MaxNotifications
            /\ notifications' = Append(notifications, NewNotification(tenant.v, req))
            /\ log' = Append(log, NoAttempts)
            /\ http' = [pc |-> "enqueue",
                        notification |-> Some(NewNotification(tenant.v, req)),
                        id |-> Len(notifications) + 1,
                        response |-> None]
    /\ UNCHANGED <<deadLetters, queue, workers, clock, dups, countdown, probe, templates,
                   apiKeys, keyRequests>>

\* line 93: send_notification_task.delay(str(notification.id))
PostEnqueue ==
    /\ http.pc = "enqueue"
    /\ queue' = queue \cup {Msg(http.id, 0)}
    /\ http' = [http EXCEPT !.pc = "respond"]
    /\ UNCHANGED <<notifications, deadLetters, workers, log, clock, dups, countdown, probe, templates,
                   apiKeys, keyRequests>>

\* Variant: the response is built from the row as it is stored by then
PostRespond_Refreshed ==
    /\ http.pc = "respond"
    /\ http' = [NoRequest EXCEPT !.response =
          Some(Response([id |-> http.id,
                         status |-> notifications[http.id].status,
                         channel |-> notifications[http.id].channel,
                         to |-> notifications[http.id].to], 202))]
    /\ UNCHANGED <<notifications, deadLetters, queue, workers, log, clock, dups,
                   countdown, probe, templates, apiKeys, keyRequests>>

\* lines 96-105: the response, built from the notification object in memory
PostRespond ==
    /\ http.pc = "respond"
    /\ http' = [NoRequest EXCEPT !.response =
          Some(Response([id |-> http.id,
                         status |-> http.notification.v.status,
                         channel |-> http.notification.v.channel,
                         to |-> http.notification.v.to], 202))]
    /\ UNCHANGED <<notifications, deadLetters, queue, workers, log, clock, dups,
                   countdown, probe, templates, apiKeys, keyRequests>>

Dispatch ==
    \/ \E w \in Workers, m \in queue : Deliver(w, m, FALSE)
    \/ \E w \in Workers : MarkProcessing(w)
    \/ \E w \in Workers, transport \in TransportOutcomes : Send(w, transport)
    \/ \E w \in Workers : SaveSent(w)
    \/ \E w \in Workers : SaveError(w)
    \/ \E w \in Workers : RaiseForRetry(w)
    \/ \E w \in Workers : MarkFailed(w)
    \/ \E w \in Workers : CreateDeadLetter(w)

NextIngress ==
    \/ \E tenant \in Tenants, req \in IngressRequests : Post(tenant, req)
    \/ PostEnqueue
    \/ PostRespond
    \/ Dispatch

SpecIngress == Init /\ [][NextIngress]_vars

----------------------------------------------------------------------------
(* Specification with fairness: each job is delivered once, the queue runs  *)
(* every scheduled attempt and no worker stops half-way                    *)

NextFair ==
    \/ \E req \in Requests : Notify(req)
    \/ Dispatch

FairSpec == Init /\ [][NextFair]_vars /\ WF_vars(Dispatch)

----------------------------------------------------------------------------
(* Specification of the provider functions called directly, on any         *)
(* arguments                                                               *)

SendSettings ==
    {[DEFAULT_FROM_EMAIL |-> None], [DEFAULT_FROM_EMAIL |-> Some("")], settings}

SendChannels == {"email", "EMAIL", "sms", ""}

SendRecipients == {"", "a@b.com"}

SendSubjects == {None, Some(<<"Hello">>)}

SendBodies == {<<>>, <<"Hi ", "Sam">>}

ProviderChannels ==
    {None} \cup {Some(c) : c \in {"email", "EMAIL", "Email", "sms", "SMS", "whatsapp",
                                  "WhatsApp", "push", "PUSH", "carrier-pigeon", ""}}

\* provider.send(to=..., subject=..., body=..., channel=...) on an EmailProvider
CallSend(conf, to, subject, body, channel, transport) ==
    /\ probe' = Some([fn |-> "EmailProvider.send",
                      args |-> [conf |-> conf, to |-> to, subject |-> subject,
                                body |-> body, channel |-> channel],
                      out |-> EmailProvider_send(conf, to, subject, body, channel,
                                                 transport)])
    /\ UNCHANGED <<notifications, deadLetters, queue, workers, log, clock, dups,
                   countdown, http, templates, apiKeys, keyRequests>>

\* get_provider(channel)
CallGetProvider(channel) ==
    /\ probe' = Some([fn |-> "get_provider",
                      args |-> [channel |-> channel],
                      out |-> get_provider(channel)])
    /\ UNCHANGED <<notifications, deadLetters, queue, workers, log, clock, dups,
                   countdown, http, templates, apiKeys, keyRequests>>

NextProviders ==
    \/ \E conf \in SendSettings, to \in SendRecipients, subject \in SendSubjects,
          body \in SendBodies, channel \in SendChannels,
          transport \in TransportOutcomes :
          CallSend(conf, to, subject, body, channel, transport)
    \/ \E channel \in ProviderChannels : CallGetProvider(channel)

SpecProviders == Init /\ [][NextProviders]_vars

----------------------------------------------------------------------------
(* Specification with two workers and no serialisation: the queue may hand *)
(* a job of a notification to one worker while the other is still running  *)
(* a job of the same notification                                          *)

Workers2 == {"w1", "w2"}

ConcurrentRequests ==
    {Req("email", "a@b.com", None, Hello, Some(<<Lit("Hi "), Var("name")>>),
         {<<"name", "Sam">>})}

InitConcurrent ==
    /\ notifications = <<>>
    /\ deadLetters = {}
    /\ queue = {}
    /\ workers = [w \in Workers2 |-> Idle]
    /\ log = <<>>
    /\ clock = 1
    /\ dups = 0
    /\ countdown = None
    /\ http = NoRequest
    /\ probe = None
    /\ templates = TemplateRows
    /\ apiKeys = ApiKeyRows
    /\ keyRequests = [c \in KeyClients |-> NoKeyRequest]

NextConcurrent ==
    \/ \E req \in ConcurrentRequests : Notify(req)
    \/ \E w \in Workers2, m \in queue, redeliver \in BOOLEAN : Start(w, m, redeliver)
    \/ \E w \in Workers2 : MarkProcessing(w)
    \/ \E w \in Workers2, transport \in TransportOutcomes : Send(w, transport)
    \/ \E w \in Workers2 : SaveSent(w)
    \/ \E w \in Workers2 : SaveError(w)
    \/ \E w \in Workers2 : RaiseForRetry(w)
    \/ \E w \in Workers2 : MarkFailed(w)
    \/ \E w \in Workers2 : CreateDeadLetter(w)

SpecConcurrent == InitConcurrent /\ [][NextConcurrent]_vars

----------------------------------------------------------------------------
(* Specification with faults: the mail transport fails with more than one  *)
(* error text, and a worker process can die between any two steps of an    *)
(* attempt.  The task keeps Celery's default acknowledgement (the message  *)
(* is acknowledged before the task body runs), so the job of a dead worker *)
(* is not delivered again.                                                 *)

TransportFaults ==
    TransportOutcomes \cup
    {[raises |-> TRUE, sent_count |-> 0, error |-> <<"connection refused">>]}

\* The worker process dies while it runs send_notification_task: nothing
\* after the current position is executed.
Crash(w) ==
    /\ workers[w].pc # "idle"
    /\ log' = Finished(workers[w].id, workers[w].retries,
                       IF workers[w].pc = "mark" THEN "crashed_before_processing"
                       ELSE "crashed")
    /\ workers' = [workers EXCEPT ![w] = Idle]
    /\ UNCHANGED <<notifications, deadLetters, queue, clock, dups, countdown, http, probe, templates,
                   apiKeys, keyRequests>>

NextFaults ==
    \/ \E req \in Requests : Notify(req)
    \/ \E w \in Workers, m \in queue : Deliver(w, m, FALSE)
    \/ \E w \in Workers : MarkProcessing(w)
    \/ \E w \in Workers, transport \in TransportFaults : Send(w, transport)
    \/ \E w \in Workers : SaveSent(w)
    \/ \E w \in Workers : SaveError(w)
    \/ \E w \in Workers : RaiseForRetry(w)
    \/ \E w \in Workers : MarkFailed(w)
    \/ \E w \in Workers : CreateDeadLetter(w)
    \/ \E w \in Workers : Crash(w)

SpecFaults == Init /\ [][NextFaults]_vars

----------------------------------------------------------------------------
(* Specification with the template endpoints (views.py TemplateViewSet, a  *)
(* ModelViewSet): an authenticated tenant creates, updates and deletes its *)
(* templates while notifications are created and dispatched                *)

TemplateRequests ==
    { Req("email", "a@b.com", Some("welcome"), None, None, {<<"name", "Sam">>}),
      Req("email", "a@b.com", None, Hello, Some(<<Lit("Hi")>>), {}) }

\* POST /v1/templates/: a row under a name the tenant does not use yet
\* (unique_together tenant, name); the body field does not accept ''
TemplateCreate(name, row) ==
    /\ name \notin DOMAIN templates
    /\ Truthy(row.body)
    /\ templates' = [x \in DOMAIN templates \cup {name} |->
                        IF x = name THEN row ELSE templates[x]]
    /\ UNCHANGED <<notifications, deadLetters, queue, workers, log, clock, dups,
                   countdown, http, probe, apiKeys, keyRequests>>

\* PATCH /v1/templates/{id}/ with {"is_active": is_active}
TemplateUpdate(name, is_active) ==
    /\ name \in DOMAIN templates
    /\ templates' = [templates EXCEPT ![name].is_active = is_active]
    /\ UNCHANGED <<notifications, deadLetters, queue, workers, log, clock, dups,
                   countdown, http, probe, apiKeys, keyRequests>>

\* DELETE /v1/templates/{id}/: the row is deleted, and on_delete=SET_NULL
\* sets the template of the notifications that reference it to NULL
TemplateDestroy(name) ==
    /\ name \in DOMAIN templates
    /\ templates' = [x \in DOMAIN templates \ {name} |-> templates[x]]
    /\ notifications' = [id \in DOMAIN notifications |->
                            IF notifications[id].template = Some(name)
                            THEN [notifications[id] EXCEPT !.template = None]
                            ELSE notifications[id]]
    /\ UNCHANGED <<deadLetters, queue, workers, log, clock, dups, countdown, http, probe,
                   apiKeys, keyRequests>>

NextTemplates ==
    \/ \E req \in TemplateRequests : Notify(req)
    \/ Dispatch
    \/ \E name \in TemplateNames : TemplateCreate(name, TemplateRows[name])
    \/ \E name \in TemplateNames, is_active \in BOOLEAN : TemplateUpdate(name, is_active)
    \/ \E name \in TemplateNames : TemplateDestroy(name)

SpecTemplates == Init /\ [][NextTemplates]_vars

----------------------------------------------------------------------------
(* Specification with the query endpoints next to the ingress and the      *)
(* dispatcher: NotificationListView, NotificationDetailView and            *)
(* DeadLetterListView (views.py 175-262).  `limit` keeps its default of    *)
(* 100.                                                                    *)

QueryRequests ==
    { Req("email", "a@b.com", None, Hello, Some(<<Lit("Hi")>>), {}),
      Req("email", "a@b.com", Some("retired"), None, None, {}) }

StatusFilters == {None, Some("sent")}

ChannelFilters == {None, Some("sms")}

\* The identifiers of ids, the latest first (ordering = ["-created_at"])
RECURSIVE LatestFirst(_)
LatestFirst(ids) ==
    IF ids = {} THEN <<>>
    ELSE LET latest == CHOOSE x \in ids : \A y \in ids : y <= x
         IN  <<latest>> \o LatestFirst(ids \ {latest})

\* NotificationSerializer(notification).data for the row id of the table
\* rows; template_name is left out of the output when the template is None
NotificationSerializer(id, rows) ==
    LET n == rows[id]
    IN  [id |-> id, channel |-> n.channel, to |-> n.to, template |-> n.template,
         template_name |-> n.template, data |-> n.data, status |-> n.status,
         error_message |-> n.error_message, sent_at |-> n.sent_at]

\* DeadLetterSerializer(dead_letter).data, the notification joined in from rows
DeadLetterSerializer(d, rows) ==
    [id |-> d.id,
     notification_id |-> d.notification,
     notification_channel |-> rows[d.notification].channel,
     notification_to |-> rows[d.notification].to,
     reason |-> d.reason,
     retry_count |-> d.retry_count]

Unauthenticated == Response([error |-> "Authentication required"], 401)

\* views.py 184-208: the response of GET /v1/notifications/?status=...&channel=...
\* over the notifications table rows
NotificationList(tenant, status_filter, channel_filter, rows) ==
    IF ~tenant.some THEN Unauthenticated
    ELSE LET ids == LatestFirst(
                {id \in DOMAIN rows :
                   /\ rows[id].tenant = tenant.v
                   /\ status_filter.some => rows[id].status = status_filter.v
                   /\ channel_filter.some => rows[id].channel = channel_filter.v})
         IN  Response([k \in 1..Len(ids) |-> NotificationSerializer(ids[k], rows)], 200)

\* Variant: the lookup is by id alone
NotificationDetail_AnyTenant(tenant, pk, rows) ==
    IF ~tenant.some THEN Unauthenticated
    ELSE IF pk \notin DOMAIN rows
    THEN Response([error |-> "Notification not found"], 404)
    ELSE Response(NotificationSerializer(pk, rows), 200)

\* views.py 218-237: the response of GET /v1/notifications/{pk}/
NotificationDetail(tenant, pk, rows) ==
    IF ~tenant.some THEN Unauthenticated
    ELSE IF pk \notin DOMAIN rows \/ rows[pk].tenant # tenant.v
    THEN Response([error |-> "Notification not found"], 404)
    ELSE Response(NotificationSerializer(pk, rows), 200)

\* views.py 247-262: the response of GET /v1/dead-letters/ over the tables
\* rows (notifications) and dead (dead_letters)
DeadLetterList(tenant, rows, dead) ==
    IF ~tenant.some THEN Unauthenticated
    ELSE LET ids == LatestFirst({d.id : d \in {x \in dead :
                                                  rows[x.notification].tenant = tenant.v}})
         IN  Response([k \in 1..Len(ids) |->
                          DeadLetterSerializer(CHOOSE d \in dead : d.id = ids[k], rows)],
                      200)

\* Variant: reading a notification marks it delivered
NotificationDetailView_get_MarksDelivered(tenant, pk) ==
    /\ probe' = Some([fn |-> "NotificationDetailView.get",
                      args |-> [tenant |-> tenant, pk |-> pk],
                      out |-> NotificationDetail(tenant, pk, notifications)])
    /\ notifications' = IF NotificationDetail(tenant, pk, notifications).status_code = 200
                        THEN [notifications EXCEPT ![pk].status = "delivered"]
                        ELSE notifications
    /\ UNCHANGED <<deadLetters, queue, workers, log, clock, dups,
                   countdown, http, templates, apiKeys, keyRequests>>

\* NotificationListView.get
NotificationListView_get(tenant, status_filter, channel_filter) ==
    /\ probe' = Some([fn |-> "NotificationListView.get",
                      args |-> [tenant |-> tenant, status |-> status_filter,
                                channel |-> channel_filter],
                      out |-> NotificationList(tenant, status_filter, channel_filter,
                                               notifications)])
    /\ UNCHANGED <<notifications, deadLetters, queue, workers, log, clock, dups,
                   countdown, http, templates, apiKeys, keyRequests>>

\* NotificationDetailView.get
NotificationDetailView_get(tenant, pk) ==
    /\ probe' = Some([fn |-> "NotificationDetailView.get",
                      args |-> [tenant |-> tenant, pk |-> pk],
                      out |-> NotificationDetail(tenant, pk, notifications)])
    /\ UNCHANGED <<notifications, deadLetters, queue, workers, log, clock, dups,
                   countdown, http, templates, apiKeys, keyRequests>>

\* DeadLetterListView.get
DeadLetterListView_get(tenant) ==
    /\ probe' = Some([fn |-> "DeadLetterListView.get",
                      args |-> [tenant |-> tenant],
                      out |-> DeadLetterList(tenant, notifications, deadLetters)])
    /\ UNCHANGED <<notifications, deadLetters, queue, workers, log, clock, dups,
                   countdown, http, templates, apiKeys, keyRequests>>

NextQueries ==
    \/ \E tenant \in Tenants, req \in QueryRequests : Post(tenant, req)
    \/ PostEnqueue
    \/ PostRespond
    \/ Dispatch
    \/ \E tenant \in Tenants, status_filter \in StatusFilters,
          channel_filter \in ChannelFilters :
          NotificationListView_get(tenant, status_filter, channel_filter)
    \/ \E tenant \in Tenants, pk \in 1..UnknownId : NotificationDetailView_get(tenant, pk)
    \/ \E tenant \in Tenants : DeadLetterListView_get(tenant)

SpecQueries == Init /\ [][NextQueries]_vars

----------------------------------------------------------------------------
(* Fair specification with a transport that may not answer: the connection *)
(* is opened by get_connection() without a timeout argument and the task   *)
(* is declared without time_limit or soft_time_limit, so a call of         *)
(* message.send that gets no answer from the mail server does not return.  *)
(* A transport that gives up on its own raises, which TransportOutcomes     *)
(* covers.                                                                 *)

\* lines 64-69 of the task and line 70 of the provider: provider.send has
\* handed the message to the transport, which does not answer; no statement
\* of the task runs until it does
SendBlocks(w) ==
    /\ workers[w].pc = "send"
    /\ LET id == workers[w].id
           notification == [notifications[id] EXCEPT !.template = workers[w].template]
           r == TrySend(notification, CHOOSE t \in TransportOutcomes : ~t.raises)
       IN  /\ r.called
           /\ r.handed = 1
           /\ log' = [log EXCEPT ![id] =
                    [@ EXCEPT !.attempts = @ + 1, !.calls = @ + 1]]
    /\ workers' = [workers EXCEPT ![w].pc = "in_transport"]
    /\ UNCHANGED <<notifications, deadLetters, queue, clock, dups, countdown, http, probe,
                   templates, apiKeys, keyRequests>>

NextBlocking ==
    \/ \E req \in Requests : Notify(req)
    \/ Dispatch
    \/ \E w \in Workers : SendBlocks(w)

FairSpecBlocking ==
    Init /\ [][NextBlocking]_vars /\ WF_vars(Dispatch \/ \E w \in Workers : SendBlocks(w))

----------------------------------------------------------------------------
(* Specification with two workers and two notifications: the queue keeps   *)
(* the attempts of one notification apart, attempts of different           *)
(* notifications run on the two workers at once, step by step              *)

\* Two notifications as NotifyView.post stored them, one with inline text and
\* one with a template, and the first job of each
InitParallel ==
    /\ notifications =
          << NewNotification("acme", Req("email", "a@b.com", None, Hello,
                                 Some(<<Lit("Hi "), Var("name")>>), {<<"name", "Sam">>})),
             NewNotification("acme", Req("email", "a@b.com", Some("welcome"), None, None,
                                 {<<"name", "Kim">>})) >>
    /\ deadLetters = {}
    /\ queue = {Msg(1, 0), Msg(2, 0)}
    /\ workers = [w \in Workers2 |-> Idle]
    /\ log = <<NoAttempts, NoAttempts>>
    /\ clock = 1
    /\ dups = 0
    /\ countdown = None
    /\ http = NoRequest
    /\ probe = None
    /\ templates = TemplateRows
    /\ apiKeys = ApiKeyRows
    /\ keyRequests = [c \in KeyClients |-> NoKeyRequest]

\* A worker of Workers2 is running an attempt on notification id
Busy2(id) == \E w \in Workers2 : workers[w].pc # "idle" /\ workers[w].id = id

NextParallel ==
    \/ \E w \in Workers2, m \in queue : ~Busy2(m.id) /\ Start(w, m, FALSE)
    \/ \E w \in Workers2 : MarkProcessing(w)
    \/ \E w \in Workers2, transport \in TransportOutcomes : Send(w, transport)
    \/ \E w \in Workers2 : SaveSent(w)
    \/ \E w \in Workers2 : SaveError(w)
    \/ \E w \in Workers2 : RaiseForRetry(w)
    \/ \E w \in Workers2 : MarkFailed(w)
    \/ \E w \in Workers2 : CreateDeadLetter(w)

SpecParallel == InitParallel /\ [][NextParallel]_vars

----------------------------------------------------------------------------
(* Specification with two tenants: both have notifications, the dispatcher *)
(* runs on one of them and both read through the query endpoints           *)

\* request.tenant for requests with a key of one of two tenants
Tenants2 == {Some("acme"), Some("globex")}

\* A notification of tenant globex that was dead-lettered earlier and one of
\* tenant acme as NotifyView.post stored it, with its first job
InitTenants ==
    /\ notifications =
          << [StoredRow("failed", "email") EXCEPT !.tenant = "globex"],
             NewNotification("acme", Req("email", "a@b.com", None, Hello,
                                         Some(<<Lit("Hi")>>), {})) >>
    /\ deadLetters = {[id |-> 1, notification |-> 1, reason |-> <<"transport error">>,
                       retry_count |-> MAX_RETRIES]}
    /\ queue = {Msg(2, 0)}
    /\ workers = [w \in Workers |-> Idle]
    /\ log = <<NoAttempts, NoAttempts>>
    /\ clock = 1
    /\ dups = 0
    /\ countdown = None
    /\ http = NoRequest
    /\ probe = None
    /\ templates = TemplateRows
    /\ apiKeys = ApiKeyRows
    /\ keyRequests = [c \in KeyClients |-> NoKeyRequest]

\* The identifiers asked for: the two stored ones and one that is not stored
TenantPks == 1..3

NextTenants ==
    \/ Dispatch
    \/ \E tenant \in Tenants2, status_filter \in StatusFilters :
          NotificationListView_get(tenant, status_filter, None)
    \/ \E tenant \in Tenants2, pk \in TenantPks : NotificationDetailView_get(tenant, pk)
    \/ \E tenant \in Tenants2 : DeadLetterListView_get(tenant)

SpecTenants == InitTenants /\ [][NextTenants]_vars

----------------------------------------------------------------------------
(* Specification of the API-key deactivate endpoint: two clients send      *)
(* requests at the same time; each request is authenticated by the         *)
(* middleware, then looked up and checked by the view, then written by     *)
(* deactivate_key. The lookup and the write are separate statements with   *)
(* no lock and no transaction around them                                  *)

\* The X-API-KEY header: missing, a key that was issued, or another string
RawKeys == {None, Some("k1"), Some("k2"), Some("k3"), Some("no-such-key")}

\* The pk of the URL: the stored keys and one that is not stored
KeyPks == 1..(Len(ApiKeyRows) + 1)

\* tenants/services.py 69-96: the id of the active key whose hash raw_key
\* matches (check_password(raw_key, make_password(key)) is raw_key = key),
\* None if there is none
verify_key(raw_key) ==
    IF ~raw_key.some THEN None
    ELSE LET active_keys == {k \in DOMAIN apiKeys : apiKeys[k].is_active}
         IN  IF \E k \in active_keys : apiKeys[k].key = raw_key.v
             THEN Some(CHOOSE k \in active_keys : apiKeys[k].key = raw_key.v)
             ELSE None

\* tenants/middleware.py 34-95: 401 without a header or without an active key
\* that matches, else request.tenant and request.api_key are set and the
\* request goes on to the view
process_request(c, raw_key, pk) ==
    /\ keyRequests[c].pc = "idle"
    /\ keyRequests' = [keyRequests EXCEPT ![c] =
          IF ~raw_key.some \/ ~verify_key(raw_key).some
          THEN [NoKeyRequest EXCEPT !.pk = pk, !.status_code = 401]
          ELSE [pc |-> "view",
                tenant |-> Some(apiKeys[verify_key(raw_key).v].tenant),
                api_key |-> verify_key(raw_key),
                pk |-> pk,
                status_code |-> 0]]
    /\ UNCHANGED <<notifications, deadLetters, queue, workers, log, clock, dups,
                   countdown, http, probe, templates, apiKeys>>

\* tenants/views.py 131-151: APIKey.objects.get(pk=pk, tenant=request.tenant)
\* and the check that the key is not the one of the request
APIKeyDeactivateView_post(c) ==
    /\ keyRequests[c].pc = "view"
    /\ LET r == keyRequests[c]
       IN  keyRequests' = [keyRequests EXCEPT ![c] =
              IF ~r.tenant.some
              THEN [r EXCEPT !.pc = "idle", !.status_code = 401]
              ELSE IF r.pk \notin DOMAIN apiKeys \/ apiKeys[r.pk].tenant # r.tenant.v
              THEN [r EXCEPT !.pc = "idle", !.status_code = 404]
              ELSE IF r.api_key.some /\ r.api_key.v = r.pk
              THEN [r EXCEPT !.pc = "idle", !.status_code = 400]
              ELSE [r EXCEPT !.pc = "deactivate"]]
    /\ UNCHANGED <<notifications, deadLetters, queue, workers, log, clock, dups,
                   countdown, http, probe, templates, apiKeys>>

\* tenants/views.py 153-158 and tenants/services.py 99-102: is_active = False;
\* save(update_fields=['is_active']); the response 200
deactivate_key(c) ==
    /\ keyRequests[c].pc = "deactivate"
    /\ apiKeys' = [apiKeys EXCEPT ![keyRequests[c].pk].is_active = FALSE]
    /\ keyRequests' = [keyRequests EXCEPT ![c] =
                          [@ EXCEPT !.pc = "idle", !.status_code = 200]]
    /\ UNCHANGED <<notifications, deadLetters, queue, workers, log, clock, dups,
                   countdown, http, probe, templates>>

NextApiKeys ==
    \/ \E c \in KeyClients, raw_key \in RawKeys, pk \in KeyPks : process_request(c, raw_key, pk)
    \/ \E c \in KeyClients : APIKeyDeactivateView_post(c)
    \/ \E c \in KeyClients : deactivate_key(c)

SpecApiKeys == Init /\ [][NextApiKeys]_vars

----------------------------------------------------------------------------
(* Properties *)

Rows == DOMAIN notifications

Queued(id) == \E m \in queue : m.id = id

\* The text the body is rendered from
BodySource(n) ==
    IF n.template.some THEN templates[n.template.v].body ELSE n.data.inline_body

\* The body is well-formed and references a variable absent from the data mapping
ReferencesMissingVariable(n) ==
    /\ BodySource(n).some
    /\ \A i \in 1..Len(BodySource(n).v) : BodySource(n).v[i].k # "bad"
    /\ \E i \in 1..Len(BodySource(n).v) :
          /\ BodySource(n).v[i].k = "var"
          /\ ~HasKey(n.data.template_data, BodySource(n).v[i].s)

\* C1: a dispatch attempt that loads a notification whose status is sent or
\* delivered, whatever its retry counter, returns at once: the worker is idle
\* again, no row of notifications or dead_letters changes, provider.send is
\* not called and no retry is put on the queue.
C1_SkipIsNoOp ==
    [][\A w \in Workers, m \in queue, redeliver \in BOOLEAN :
          ( /\ Start(w, m, redeliver)
            /\ m.id \in Rows
            /\ notifications[m.id].status \in {"sent", "delivered"} )
          => /\ workers'[w] = Idle
             /\ notifications' = notifications
             /\ deadLetters' = deadLetters
             /\ log'[m.id].calls = log[m.id].calls
             /\ log'[m.id].attempts = log[m.id].attempts
             /\ queue' \subseteq queue]_vars

\* C1 witness: a job with retry counter 3 was run on a notification stored as
\* delivered and ended as a skip, no attempt made.
C1_Witness ==
    /\ notifications[1].status = "delivered"
    /\ log[1].last = [retries |-> MAX_RETRIES, outcome |-> "skipped"]
    /\ log[1].attempts = 0
    /\ deadLetters = {}

\* C2 (as claimed): in every reachable state a notification whose status is
\* failed has exactly one Dead-Letter entry referencing it.
C2_FailedHasOneDeadLetter ==
    \A id \in Rows :
        notifications[id].status = "failed" => Cardinality(DeadLettersOf(id)) = 1

\* C3 (as claimed): the retry_count of a Dead-Letter entry equals the number
\* of dispatch attempts made for its notification.
C3_RetryCountIsAttempts ==
    \A d \in deadLetters : d.retry_count = log[d.notification].attempts

\* C3 (amended): the retry_count of a Dead-Letter entry is the retry counter
\* of the attempt that gave up, MAX_RETRIES = 3: the number of retries, one
\* less than the number of attempts made (exactly one less when the queue
\* made no redelivery, at least one less otherwise).
C3_RetryCountIsRetries ==
    \A d \in deadLetters :
        /\ d.retry_count = MAX_RETRIES
        /\ log[d.notification].attempts >= d.retry_count + 1
        /\ dups = 0 => log[d.notification].attempts = d.retry_count + 1

\* C3 witness: a Dead-Letter entry written after four attempts, no redelivery.
C3_Witness ==
    \E d \in deadLetters :
        /\ dups = 0
        /\ log[d.notification].attempts = MAX_RETRIES + 1
        /\ d.retry_count = MAX_RETRIES

\* C4 (as claimed): once a notification whose channel has no provider has had
\* a first attempt, its status is failed, a Dead-Letter entry with
\* retry_count = 0 exists and no retry is on the queue.
C4_NoProviderDeadLettersAtOnce ==
    \A id \in Rows :
        ( /\ ~get_provider(Some(notifications[id].channel)).ok
          /\ log[id].attempts >= 1
          /\ ~Busy(id) )
        => /\ notifications[id].status = "failed"
           /\ \E d \in DeadLettersOf(id) : d.retry_count = 0
           /\ \A m \in queue : m.id = id => m.retries = 0

\* C5: for an email notification whose provider.send raised on every attempt
\* so far (no redelivery by the queue), the attempts carry the retry counters
\* 0, 1, 2, 3 in turn and never exceed 4; once no job is left for it, exactly
\* 4 attempts were made, the status is failed and exactly one Dead-Letter
\* entry exists, with retry_count = 3.
C5_FourAttemptsThenDeadLetter ==
    \A id \in Rows :
        ( /\ notifications[id].channel = "email"
          /\ dups = 0
          /\ log[id].raised = log[id].attempts )
        => /\ log[id].attempts <= MAX_RETRIES + 1
           /\ \A m \in queue : m.id = id => m.retries = log[id].attempts
           /\ \A w \in Workers :
                 (workers[w].pc \in {"save_error", "decide", "dead_letter"}
                    /\ workers[w].id = id)
                 => workers[w].retries = log[id].attempts - 1
           /\ (log[id].attempts >= 1 /\ ~Busy(id) /\ ~Queued(id))
              => /\ log[id].attempts = MAX_RETRIES + 1
                 /\ notifications[id].status = "failed"
                 /\ \E d \in deadLetters :
                       DeadLettersOf(id) = {d} /\ d.retry_count = MAX_RETRIES

\* C5 witness: four attempts, provider.send raised in each, the notification
\* is failed with its Dead-Letter entry and nothing is left on the queue.
C5_Witness ==
    \E id \in Rows :
        /\ notifications[id].channel = "email"
        /\ dups = 0
        /\ log[id].raised = MAX_RETRIES + 1
        /\ log[id].attempts = MAX_RETRIES + 1
        /\ notifications[id].status = "failed"
        /\ DeadLettersOf(id) # {}
        /\ ~Busy(id) /\ ~Queued(id)

\* C6: in every reachable state a notification whose status is sent has a
\* non-null sent_at and a non-empty provider_response, equal to the result
\* provider.send returned.
C6_SentHasTimeAndResponse ==
    \A id \in Rows :
        notifications[id].status = "sent"
        => /\ notifications[id].sent_at.some
           /\ notifications[id].provider_response # EmptyDict
           /\ notifications[id].provider_response = log[id].returned

\* C6 witness: a sent notification holding a not_sent provider result.
C6_Witness ==
    \E id \in Rows :
        /\ notifications[id].status = "sent"
        /\ log[id].returned # EmptyDict
        /\ log[id].returned.status = "not_sent"

\* C7 (as claimed): every change of a notification's status is one of
\* pending->processing, processing->sent, processing->failed.
C7_StatusTransitions ==
    [][\A id \in Rows :
          notifications'[id].status # notifications[id].status
          => <<notifications[id].status, notifications'[id].status>> \in
                {<<"pending", "processing">>, <<"processing", "sent">>,
                 <<"processing", "failed">>}]_vars

\* C8 (as claimed): a notification whose body references a variable absent
\* from the data mapping never has provider.send called and is never sent.
C8_MissingVariableFailsAttempt ==
    \A id \in Rows :
        ReferencesMissingVariable(notifications[id])
        => /\ log[id].calls = 0
           /\ notifications[id].status # "sent"

\* C9 (as claimed): in every reachable state a notification whose status is
\* sent has no Dead-Letter entry.
C9_SentHasNoDeadLetter ==
    \A id \in Rows :
        notifications[id].status = "sent" => DeadLettersOf(id) = {}

\* C10: at most one Dead-Letter entry exists per notification, and no step
\* adds a second entry for a notification that has one or changes the reason
\* or retry_count of an existing one.
C10_OneDeadLetterForEver ==
    [][\A id \in Rows :
          /\ Cardinality(DeadLettersOf(id)') <= 1
          /\ DeadLettersOf(id) # {} => DeadLettersOf(id)' = DeadLettersOf(id)]_vars

\* C10 witness: a job for an already dead-lettered notification ran down to
\* the insert, which the unique constraint refused; the one entry is intact.
C10_Witness ==
    \E id \in Rows :
        /\ log[id].last.outcome = "integrity_error"
        /\ Cardinality(DeadLettersOf(id)) = 1
        /\ notifications[id].status = "failed"


\* C11: sent_at is non-null exactly for the notifications whose status has
\* been written 'sent' at some point: a notification that was never sent
\* (pending, processing or failed) has a null sent_at, and a notification that
\* was sent has a non-null one from then on.
C11_SentAtIffEverSent ==
    \A id \in Rows :
        /\ notifications[id].sent_at.some <=> log[id].ever_sent
        /\ notifications[id].status = "sent" => log[id].ever_sent

\* A sent notification keeps its sent_at while a later job for it is skipped
C11_Witness ==
    \E id \in Rows :
        /\ notifications[id].sent_at = Some(1)
        /\ log[id].ever_sent
        /\ log[id].last.outcome = "skipped"

\* C12: for a notification on the email channel, status 'failed' and a
\* Dead-Letter entry come only from a failing attempt whose retry counter is at
\* least MAX_RETRIES, i.e. after at least MAX_RETRIES + 1 attempts: a failed
\* notification, a Dead-Letter entry and a worker inside _move_to_dead_letter
\* all carry a counter >= MAX_RETRIES and follow >= MAX_RETRIES + 1 attempts.
C12_FailedOnlyAfterRetries ==
    \A id \in Rows :
        Lower(notifications[id].channel) = "email" =>
            /\ \A w \in Workers :
                  (workers[w].id = id /\ workers[w].pc = "dead_letter") =>
                      /\ workers[w].e.some
                      /\ workers[w].retries >= MAX_RETRIES
                      /\ log[id].attempts >= MAX_RETRIES + 1
            /\ \A d \in DeadLettersOf(id) :
                  /\ d.retry_count >= MAX_RETRIES
                  /\ log[id].attempts >= MAX_RETRIES + 1
            /\ notifications[id].status = "failed" =>
                  /\ log[id].attempts >= MAX_RETRIES + 1
                  /\ \/ DeadLettersOf(id) # {}
                     \/ \E w \in Workers :
                           workers[w].id = id /\ workers[w].pc = "dead_letter"

\* An email notification failed by its fourth attempt, after the transport
\* raised four times
C12_Witness ==
    \E id \in Rows :
        /\ notifications[id].channel = "email"
        /\ notifications[id].status = "failed"
        /\ log[id].raised = MAX_RETRIES + 1
        /\ \E d \in DeadLettersOf(id) : d.retry_count = MAX_RETRIES

\* C13: an attempt that fails with retry counter n < MAX_RETRIES ends by
\* propagating the failure, and exactly the job (id, n + 1) is put on the
\* queue; a successful attempt, a skipped one, and a failing attempt with
\* n >= MAX_RETRIES end without a propagated failure (outcome sent, skipped or
\* dead_letter) and put nothing on the queue.
C13_RetryOnlyBelowLimit ==
    [][ /\ \A w \in Workers :
              (workers[w].pc # "idle" /\ workers'[w].pc = "idle") =>
                  LET id == workers[w].id
                      n  == workers[w].retries
                  IN  IF workers[w].e.some /\ n < MAX_RETRIES
                      THEN /\ log'[id].last = [retries |-> n, outcome |-> "retry"]
                           /\ queue' = queue \cup {Msg(id, n + 1)}
                      ELSE /\ log'[id].last.outcome \in {"sent", "dead_letter"}
                           /\ queue' = queue
        /\ \A w \in Workers :
              (workers[w].pc = "decide" /\ workers[w].retries < MAX_RETRIES
                  /\ workers'[w] # workers[w]) => workers'[w].pc = "idle"
        /\ \A w \in Workers, m \in queue, redeliver \in BOOLEAN :
              ( /\ Start(w, m, redeliver)
                /\ m.id \in Rows
                /\ AlreadyProcessed(notifications[m.id].status) )
              => /\ log'[m.id].last = [retries |-> m.retries, outcome |-> "skipped"]
                 /\ queue' \subseteq queue
      ]_vars

\* C14: the countdown requested for the k-th retry (by the failing attempt
\* with retry counter k - 1) lies in 0 .. 2 * schedule[k] seconds, where
\* schedule is 60, 300, 900 and its last entry serves every k beyond the third.
C14_DelayWithinTwiceSchedule ==
    countdown.some =>
        LET k == countdown.v.retries + 1
            nominal == IF k <= Len(RETRY_DELAYS) THEN RETRY_DELAYS[k]
                       ELSE RETRY_DELAYS[Len(RETRY_DELAYS)]
        IN  countdown.v.delay \in 0..(2 * nominal)

\* The third retry was requested with the largest countdown its jitter allows
C14_Witness ==
    /\ countdown.some
    /\ countdown.v.retries = MAX_RETRIES - 1
    /\ countdown.v.delay = 4
    /\ Msg(countdown.v.id, MAX_RETRIES) \in queue

EmailWithStatus(id, S) ==
    IF id \in Rows
    THEN notifications[id].channel = "email" /\ notifications[id].status \in S
    ELSE FALSE

C17_PendingRowThenOneJobThen202 ==
    /\ [] /\ http.pc = "enqueue" =>
                /\ http.id \in Rows
                /\ notifications[http.id].status = "pending"
                /\ ~Queued(http.id) /\ ~Busy(http.id)
                /\ log[http.id] = NoAttempts
          /\ \A m \in queue : m.id \in Rows
          /\ \A id \in Rows :
                \/ http.pc = "enqueue" /\ http.id = id
                \/ Queued(id) \/ Busy(id) \/ log[id].last.outcome # "none"
          /\ (http.response.some /\ http.response.v.status_code \notin {400, 401, 404}) =>
                /\ http.response.v.status_code = 202
                /\ http.response.v.data.status = "pending"
                /\ http.response.v.data.id \in Rows
    /\ [][ /\ \A id \in 1..MaxNotifications :
                 (Msg(id, 0) \in queue' /\ Msg(id, 0) \notin queue) =>
                     /\ http.pc = "enqueue" /\ http.id = id
                     /\ http'.pc = "respond"
                     /\ queue' = queue \cup {Msg(id, 0)}
           /\ \A id \in 1..MaxNotifications :
                 (id \in DOMAIN notifications' /\ id \notin Rows) =>
                     /\ notifications'[id].status = "pending"
                     /\ queue' = queue
                     /\ http'.pc = "enqueue" /\ http'.id = id
           /\ (http.pc = "respond" /\ http'.pc # "respond") =>
                 /\ http'.pc = "idle"
                 /\ http'.response.some
                 /\ http'.response.v.status_code = 202
                 /\ http'.response.v.data.id = http.id
                 /\ http'.response.v.data.status = "pending"
         ]_vars

\* The response 202 / pending was given after the notification had been sent
C17_Witness ==
    /\ http.response.some
    /\ http.response.v.status_code = 202
    /\ http.response.v.data.status = "pending"
    /\ notifications[http.response.v.data.id].status = "sent"

\* The request is one the notify endpoint must reject: no authenticated
\* tenant, a channel outside the four, a recipient malformed for the channel,
\* neither template nor body, or a template that is missing or inactive
MustReject(tenant, req) ==
    \/ ~tenant.some
    \/ req.channel \notin {"email", "sms", "whatsapp", "push"}
    \/ req.to = ""
    \/ req.channel = "email" /\ ~_is_valid_email(req.to)
    \/ req.channel \in {"sms", "whatsapp"} /\ ~_is_valid_phone(req.to)
    \/ ~req.template.some /\ ~Truthy(req.body)
    \/ req.template.some /\ req.template.v \notin DOMAIN templates
    \/ req.template.some /\ req.template.v \in DOMAIN templates
          /\ ~templates[req.template.v].is_active

\* C18: handling a notify request that is unauthenticated, names a channel
\* outside email/sms/whatsapp/push, has a recipient malformed for its channel,
\* has neither template nor body, or names a missing or inactive template,
\* ends with an error response and creates no Notification row and no job;
\* accordingly every stored row has a valid channel and recipient and a body
\* source, and every job refers to a row.
C18_RejectedCreatesNothing ==
    /\ [] /\ \A id \in Rows :
                /\ notifications[id].channel \in {"email", "sms", "whatsapp", "push"}
                /\ notifications[id].channel = "email" =>
                      _is_valid_email(notifications[id].to)
                /\ notifications[id].channel \in {"sms", "whatsapp"} =>
                      _is_valid_phone(notifications[id].to)
                /\ \/ notifications[id].template.some
                      /\ notifications[id].template.v \in DOMAIN templates
                      /\ templates[notifications[id].template.v].is_active
                   \/ ~notifications[id].template.some
                      /\ Truthy(notifications[id].data.inline_body)
          /\ \A m \in queue : m.id \in Rows
    /\ [][\A tenant \in Tenants, req \in IngressRequests :
             (Post(tenant, req) /\ MustReject(tenant, req)) =>
                 /\ notifications' = notifications
                 /\ queue' = queue
                 /\ log' = log
                 /\ http'.pc = "idle"
                 /\ http'.response.some
                 /\ http'.response.v.status_code \in {400, 401, 404}
         ]_vars

\* A request was refused for its template and the tables are still empty
C18_Witness ==
    /\ http.pc = "idle"
    /\ http.response.some
    /\ http.response.v.status_code = 404
    /\ notifications = <<>>
    /\ queue = {}

\* C19: EmailProvider.send raises a ValueError and passes nothing to the mail
\* transport when channel is not exactly "email", when to is empty, when body
\* is empty, or when no default sender address is configured; on all other
\* arguments it passes the message to the transport exactly once.
C19_SendChecksBeforeTransport ==
    (probe.some /\ probe.v.fn = "EmailProvider.send") =>
        IF \/ probe.v.args.channel # "email"
           \/ probe.v.args.to = ""
           \/ probe.v.args.body = <<>>
           \/ probe.v.args.conf.DEFAULT_FROM_EMAIL \in {None, Some("")}
        THEN /\ ~probe.v.out.ok
             /\ probe.v.out.e.type = "ValueError"
             /\ probe.v.out.handed = 0
        ELSE probe.v.out.handed = 1

\* send was called with channel "EMAIL" and otherwise good arguments, and
\* raised without reaching the transport
C19_Witness ==
    /\ probe.some
    /\ probe.v.fn = "EmailProvider.send"
    /\ probe.v.args = [conf |-> settings, to |-> "a@b.com", subject |-> None,
                       body |-> <<"Hi ", "Sam">>, channel |-> "EMAIL"]
    /\ ~probe.v.out.ok
    /\ probe.v.out.handed = 0

\* C20 as stated: get_provider returns the email provider for email in any
\* letter case, raises NotImplementedError for exactly sms, whatsapp and push,
\* and raises the unsupported-channel ValueError for every other value.
C20_OnlyEmailCaseInsensitive ==
    (probe.some /\ probe.v.fn = "get_provider") =>
        LET channel == probe.v.args.channel
            out == probe.v.out
        IN  IF channel.some /\ Lower(channel.v) = "email"
            THEN out = Return("EmailProvider")
            ELSE IF channel \in {Some("sms"), Some("whatsapp"), Some("push")}
            THEN ~out.ok /\ out.e.type = "NotImplementedError"
            ELSE ~out.ok /\ out.e.type = "ValueError"

\* C20, amended: get_provider compares all four channel names in any letter
\* case: the email provider for email, NotImplementedError for sms, whatsapp
\* and push, and the unsupported-channel ValueError for every other value,
\* the empty string and None included.
C20_AllNamesCaseInsensitive ==
    (probe.some /\ probe.v.fn = "get_provider") =>
        LET channel == probe.v.args.channel
            out == probe.v.out
        IN  IF channel.some /\ Lower(channel.v) = "email"
            THEN out = Return("EmailProvider")
            ELSE IF channel.some /\ Lower(channel.v) \in {"sms", "whatsapp", "push"}
            THEN ~out.ok /\ out.e.type = "NotImplementedError"
            ELSE ~out.ok /\ out.e.type = "ValueError"

\* get_provider("SMS") raised NotImplementedError
C20_Witness ==
    /\ probe.some
    /\ probe.v.fn = "get_provider"
    /\ probe.v.args.channel = Some("SMS")
    /\ probe.v.out.e.type = "NotImplementedError"

\* C21: an attempt that fails with retry counter < MAX_RETRIES writes, from
\* the failure on, nothing but error_message: the status is and stays
\* processing, sent_at, provider_response and every other field of the row keep
\* their values, no other row changes and no Dead-Letter entry is created.
C21_FailureBelowLimitWritesErrorOnly ==
    [][\A w \in Workers :
          LET id == workers[w].id
          IN  /\ (workers[w].pc = "send" /\ workers'[w].pc = "save_error") =>
                    /\ notifications' = notifications
                    /\ deadLetters' = deadLetters
              /\ ( /\ workers[w].pc \in {"save_error", "decide"}
                   /\ workers[w].retries < MAX_RETRIES
                   /\ workers'[w] # workers[w] ) =>
                    /\ notifications[id].status = "processing"
                    /\ notifications' = [notifications EXCEPT ![id].error_message =
                                            Some(str(workers[w].e.v))]
                    /\ deadLetters' = deadLetters
      ]_vars

\* The third attempt failed and was retried: processing, an error message,
\* nothing else written
C21_Witness ==
    \E id \in Rows :
        /\ log[id].last = [retries |-> MAX_RETRIES - 1, outcome |-> "retry"]
        /\ notifications[id].status = "processing"
        /\ notifications[id].error_message.some
        /\ ~notifications[id].sent_at.some
        /\ notifications[id].provider_response = EmptyDict
        /\ DeadLettersOf(id) = {}

\* C22: a notification that has a Dead-Letter entry has status failed, in the
\* state where the entry appears and in every later state, whatever jobs the
\* queue delivers for it afterwards.
C22_DeadLetteredStaysFailed ==
    \A id \in Rows :
        DeadLettersOf(id) # {} => notifications[id].status = "failed"

\* C23: also when two attempts for one notification interleave, once the
\* status sent has been written the provider is not called again for that
\* notification, no further terminal write (sent or failed) is applied to it,
\* and its status sent is not overwritten.
C23_GuardProtectsInterleavedAttempts ==
    [][\A id \in Rows :
          /\ log[id].ever_sent =>
                /\ log'[id].calls = log[id].calls
                /\ \A w \in Workers2 :
                      ( /\ workers[w].id = id
                        /\ workers[w].pc \in {"save_sent", "decide"}
                        /\ workers'[w] # workers[w] )
                      => notifications' = notifications
          /\ notifications[id].status = "sent" => notifications'[id].status = "sent"
      ]_vars

----------------------------------------------------------------------------
\* C24: an attempt that is interrupted by a crash of its worker process after
\* it wrote `processing` and before it completed leaves the notification with
\* status `processing`: not `failed` without a Dead-Letter entry, not `sent`.
C24_CrashLeavesProcessing ==
    \A id \in Rows :
       log[id].last.outcome = "crashed" => notifications[id].status = "processing"

----------------------------------------------------------------------------
\* C25: when an attempt has failed, error_message holds the error text of that
\* attempt from before the retry-or-dead-letter decision until the attempt
\* ends, and the Dead-Letter entry an attempt creates has that text as reason.
C25_ErrorMessageIsAttemptsError ==
    /\ [](\A w \in Workers :
             workers[w].pc \in {"decide", "dead_letter"} =>
                notifications[workers[w].id].error_message = Some(str(workers[w].e.v)))
    /\ [][\A w \in Workers :
             LET id == workers[w].id
             IN  ( /\ workers[w].pc \in {"decide", "dead_letter"}
                   /\ workers'[w].pc = "idle"
                   /\ log'[id].last.outcome \in {"retry", "dead_letter"} )
                 => /\ notifications'[id].error_message = Some(str(workers[w].e.v))
                    /\ \A d \in deadLetters' \ deadLetters :
                          /\ d.notification = id
                          /\ log'[id].last.outcome = "dead_letter"
                          /\ Some(d.reason) = notifications'[id].error_message
         ]_vars

\* The transport failed with `connection refused` in the attempt that
\* dead-lettered, after three attempts that failed as well
C25_Witness ==
    \E id \in Rows, d \in deadLetters :
       /\ d.notification = id
       /\ d.reason = <<"connection refused">>
       /\ notifications[id].error_message = Some(<<"connection refused">>)
       /\ log[id].raised = MAX_RETRIES + 1
       /\ log[id].last.outcome = "dead_letter"

----------------------------------------------------------------------------
\* The text the subject is rendered from
SubjectSource(n) ==
    IF n.template.some THEN templates[n.template.v].subject ELSE n.data.inline_subject

\* The body, or the subject if there is one, has a malformed placeholder
MalformedSource(n) ==
    \/ /\ BodySource(n).some
       /\ \E i \in 1..Len(BodySource(n).v) : BodySource(n).v[i].k = "bad"
    \/ /\ Truthy(SubjectSource(n))
       /\ \E i \in 1..Len(SubjectSource(n).v) : SubjectSource(n).v[i].k = "bad"

\* C26: an attempt on a notification whose text has a malformed placeholder
\* calls no provider and goes the way of every failed attempt: the error is
\* stored, then with a retry counter below 3 the job is queued again with the
\* counter plus one and nothing else is written, and with a counter of 3 or
\* more the status becomes failed and the notification has a Dead-Letter entry
\* with that counter and the error text when the attempt ends.
C26_RenderFailureIsSendFailure ==
    [][\A w \in Workers :
          LET id == workers[w].id
              retries == workers[w].retries
          IN  ( /\ workers[w].pc # "idle"
                /\ workers'[w] # workers[w]
                /\ MalformedSource(notifications[id]) )
              => /\ log'[id].calls = log[id].calls
                 /\ workers[w].pc = "send" =>
                       /\ workers'[w].pc = "save_error"
                       /\ workers'[w].e.some
                       /\ workers'[w].e.v.type = "TemplateSyntaxError"
                 /\ workers[w].pc = "save_error" =>
                       /\ workers'[w].pc = "decide"
                       /\ notifications'[id].error_message = Some(str(workers[w].e.v))
                       /\ notifications'[id].status = notifications[id].status
                 /\ (workers[w].pc = "decide" /\ retries < 3) =>
                       /\ workers'[w].pc = "idle"
                       /\ queue' = queue \cup {Msg(id, retries + 1)}
                       /\ notifications' = notifications
                       /\ deadLetters' = deadLetters
                 /\ (workers[w].pc = "decide" /\ retries >= 3) =>
                       /\ workers'[w].pc = "dead_letter"
                       /\ notifications'[id].status = "failed"
                       /\ queue' = queue
                 /\ workers[w].pc = "dead_letter" =>
                       /\ workers'[w].pc = "idle"
                       /\ queue' = queue
                       /\ \E d \in deadLetters' :
                             /\ d.notification = id
                             /\ d.retry_count = retries
                             /\ d.reason = str(workers[w].e.v)
                 /\ workers[w].pc \notin {"mark", "send", "save_error", "decide", "dead_letter"}
                       => FALSE
      ]_vars

\* A notification with a malformed placeholder was retried three times and
\* dead-lettered without one provider call
C26_Witness ==
    \E id \in Rows :
       /\ MalformedSource(notifications[id])
       /\ log[id].attempts = MAX_RETRIES + 1
       /\ log[id].calls = 0
       /\ notifications[id].status = "failed"
       /\ \E d \in deadLetters : d.notification = id /\ d.retry_count = MAX_RETRIES

----------------------------------------------------------------------------
\* C27: an attempt on a notification with a template renders and sends from
\* the template only if the template is active at the time of the attempt: if
\* the template it loaded is inactive, the attempt calls no provider and goes
\* on as a failed attempt.
C27_InactiveTemplateFailsAttempt ==
    [][\A w \in Workers :
          ( /\ workers[w].pc = "send"
            /\ workers'[w] # workers[w]
            /\ workers[w].template.some
            /\ ~workers[w].template.v.is_active )
          => /\ log'[workers[w].id].calls = log[workers[w].id].calls
             /\ workers'[w].pc = "save_error"
      ]_vars

----------------------------------------------------------------------------
\* C28: whenever an attempt has loaded a notification whose template reference
\* is null, the notification has a non-empty inline body, whatever templates
\* were created and deleted since the notification was created.
C28_NullTemplateHasInlineBody ==
    \A w \in Workers :
       ( /\ workers[w].pc \in {"mark", "send"}
         /\ ~workers[w].template.some )
       => Truthy(notifications[workers[w].id].data.inline_body)

----------------------------------------------------------------------------
\* The fields of a notification that record its delivery
DeliveryFields(n) ==
    [status |-> n.status, sent_at |-> n.sent_at,
     provider_response |-> n.provider_response, error_message |-> n.error_message]

\* C29: status, sent_at, provider_response and error_message of an existing
\* notification and its Dead-Letter entries change only in a step of a dispatch
\* attempt on that notification: never in a step of the ingress, of the
\* notification list, of the notification detail or of the dead-letter list.
C29_OnlyDispatchWrites ==
    [][\A id \in Rows :
          ( \/ DeliveryFields(notifications'[id]) # DeliveryFields(notifications[id])
            \/ {d \in deadLetters' : d.notification = id} # DeadLettersOf(id) )
          => /\ \E w \in Workers :
                   /\ workers[w].id = id
                   /\ workers[w].pc # "idle"
                   /\ workers'[w] # workers[w]
             /\ http' = http
             /\ probe' = probe
      ]_vars

\* The detail of a notification was read while an attempt on it was running,
\* after the ingress had answered, and the notification is still as it was read
C29_Witness ==
    /\ probe.some
    /\ probe.v.fn = "NotificationDetailView.get"
    /\ probe.v.out.status_code = 200
    /\ probe.v.out.data.status = "processing"
    /\ notifications[probe.v.args.pk].status = "processing"
    /\ http.response.some
    /\ http.response.v.status_code = 202
    /\ \E w \in Workers : workers[w].id = probe.v.args.pk /\ workers[w].pc = "send"

----------------------------------------------------------------------------
\* C30: the delay requested before the first, second and third retry is,
\* before jitter, 60, 300 and 900 seconds, the entries of RETRY_DELAYS, and
\* never above 900 seconds.
C30_NominalDelayFollowsSchedule ==
    countdown.some =>
       /\ countdown.v.nominal = RETRY_DELAYS[countdown.v.retries + 1]
       /\ countdown.v.nominal <= 900

----------------------------------------------------------------------------
\* C31: every dispatch attempt terminates: an attempt that has started ends,
\* also when the provider call gets no answer.
C31_AttemptTerminates ==
    \A w \in Workers : (workers[w].pc # "idle") ~> (workers[w].pc = "idle")

----------------------------------------------------------------------------
\* All attempts of notification id are over
Settled(id) ==
    /\ log[id].attempts > 0
    /\ ~Queued(id)
    /\ ~Busy2(id)

\* C32: attempts on two different notifications do not contend.  A step of an
\* attempt on one notification leaves the row, the Dead-Letter entries, the
\* history and the jobs of the other notification as they are, and when the
\* attempts of a notification are over its state is the one its own attempts
\* give when they run alone: sent with the result of its successful send, or
\* failed with one Dead-Letter entry after four failed sends.
C32_DifferentNotificationsDoNotContend ==
    /\ [][\A w \in Workers2 :
             workers'[w] # workers[w] =>
                LET id == IF workers[w].pc = "idle" THEN workers'[w].id ELSE workers[w].id
                IN  \A other \in Rows \ {id} :
                       /\ notifications'[other] = notifications[other]
                       /\ {d \in deadLetters' : d.notification = other} = DeadLettersOf(other)
                       /\ log'[other] = log[other]
                       /\ {m \in queue' : m.id = other} = {m \in queue : m.id = other}
         ]_vars
    /\ [](\A id \in Rows :
             Settled(id) =>
                LET n == notifications[id]
                    failures == log[id].raised
                IN  IF log[id].ever_sent
                    THEN /\ n.status = "sent"
                         /\ n.sent_at.some
                         /\ n.provider_response = log[id].returned
                         /\ log[id].attempts = failures + 1
                         /\ n.error_message = IF failures > 0
                                              THEN Some(<<"transport error">>) ELSE None
                         /\ DeadLettersOf(id) = {}
                    ELSE /\ n.status = "failed"
                         /\ ~n.sent_at.some
                         /\ n.provider_response = EmptyDict
                         /\ failures = MAX_RETRIES + 1
                         /\ n.error_message = Some(<<"transport error">>)
                         /\ \E d \in deadLetters :
                               /\ DeadLettersOf(id) = {d}
                               /\ d.retry_count = MAX_RETRIES
                               /\ d.reason = <<"transport error">>)

\* Both workers are about to write, one the success of notification 1 and the
\* other the Dead-Letter entry of notification 2
C32_Witness ==
    \E w1 \in Workers2, w2 \in Workers2 :
       /\ workers[w1].pc = "save_sent" /\ workers[w1].id = 1
       /\ workers[w2].pc = "dead_letter" /\ workers[w2].id = 2

----------------------------------------------------------------------------
\* C33: when provider.send returns, the attempt marks the notification sent
\* and sets sent_at, whatever the result says: a result with status not_sent
\* does so too, the attempt queues no retry and writes no Dead-Letter entry,
\* and none is queued or written for the notification afterwards.
C33_ReturnedResultMeansSent ==
    [][\A w \in Workers :
          LET id == workers[w].id
          IN  /\ ( workers[w].pc = "send" /\ workers'[w] # workers[w] )
                 => ( workers'[w].pc = "save_sent"
                      <=> /\ log'[id].calls = log[id].calls + 1
                          /\ log'[id].raised = log[id].raised )
              /\ ( workers[w].pc = "save_sent" /\ workers'[w] # workers[w] )
                 => /\ notifications'[id].status = "sent"
                    /\ notifications'[id].sent_at.some
                    /\ notifications'[id].provider_response = workers[w].result
                    /\ queue' = queue
                    /\ deadLetters' = deadLetters
                    /\ workers'[w].pc = "idle"
              /\ \A sent \in Rows :
                    ( notifications[sent].status = "sent"
                      /\ notifications[sent].provider_response.status = "not_sent" )
                    => /\ notifications'[sent] = notifications[sent]
                       /\ {m \in queue' : m.id = sent} \subseteq {m \in queue : m.id = sent}
                       /\ {d \in deadLetters' : d.notification = sent} = DeadLettersOf(sent)
      ]_vars

\* The transport accepted no recipient and the notification is sent, with no
\* job left and no Dead-Letter entry
C33_Witness ==
    \E id \in Rows :
       /\ notifications[id].status = "sent"
       /\ notifications[id].sent_at.some
       /\ notifications[id].provider_response.status = "not_sent"
       /\ notifications[id].provider_response.raw.sent_count = 0
       /\ ~Queued(id)
       /\ DeadLettersOf(id) = {}

----------------------------------------------------------------------------
\* C34: over all deliveries of the jobs of one notification, duplicates with
\* the retry counter 0 included, provider.send is called at most 4 times for
\* the notification.
C34_AtMostFourProviderCalls ==
    \A id \in Rows : log[id].calls <= MAX_RETRIES + 1

----------------------------------------------------------------------------
\* C35: the success write leaves error_message as it is.  error_message is
\* written by the error write of a failed attempt alone, so a notification that
\* failed on an earlier attempt and is sent by a later one has status sent and
\* the error text of its last failed attempt.
C35_SuccessKeepsErrorMessage ==
    /\ [][\A id \in Rows :
             /\ notifications'[id].error_message # notifications[id].error_message
                => \E w \in Workers :
                      /\ workers[w].id = id
                      /\ workers[w].pc = "save_error"
                      /\ notifications'[id].error_message = Some(str(workers[w].e.v))
             /\ ( notifications[id].status # "sent" /\ notifications'[id].status = "sent" )
                => notifications'[id].error_message = notifications[id].error_message
         ]_vars
    /\ [](\A id \in Rows :
             ( notifications[id].status = "sent" /\ log[id].attempts > 1 )
             => notifications[id].error_message.some)

\* Sent at the second attempt or later, after the transport had refused the
\* connection
C35_Witness ==
    \E id \in Rows :
       /\ notifications[id].status = "sent"
       /\ log[id].attempts > 1
       /\ notifications[id].error_message = Some(<<"connection refused">>)

----------------------------------------------------------------------------
\* The notifications table without the rows of other tenants
OwnNotifications(tenant) ==
    [id \in {i \in DOMAIN notifications : notifications[i].tenant = tenant} |->
        notifications[id]]

\* The dead_letters table without the rows of other tenants' notifications
OwnDeadLetters(tenant) ==
    {d \in deadLetters : notifications[d.notification].tenant = tenant}

\* C36: what the notification list, the notification detail and the
\* dead-letter list answer to a tenant is what they answer when the records of
\* every other tenant are taken out of the tables, so it does not depend on
\* them, and the detail of a notification of another tenant is not found.
C36_QueriesSeeOwnRecordsOnly ==
    /\ [](\A tenant \in {"acme", "globex"} :
             /\ \A status_filter \in StatusFilters, channel_filter \in ChannelFilters :
                   NotificationList(Some(tenant), status_filter, channel_filter,
                                    notifications)
                   = NotificationList(Some(tenant), status_filter, channel_filter,
                                      OwnNotifications(tenant))
             /\ \A pk \in TenantPks :
                   /\ NotificationDetail(Some(tenant), pk, notifications)
                      = NotificationDetail(Some(tenant), pk, OwnNotifications(tenant))
                   /\ (pk \in Rows /\ notifications[pk].tenant # tenant)
                      => NotificationDetail(Some(tenant), pk, notifications).status_code = 404
             /\ DeadLetterList(Some(tenant), notifications, deadLetters)
                = DeadLetterList(Some(tenant), OwnNotifications(tenant),
                                 OwnDeadLetters(tenant)))
    /\ [][(probe' # probe /\ probe'.v.args.tenant.some) =>
             LET tenant == probe'.v.args.tenant.v
                 args == probe'.v.args
             IN  probe'.v.out =
                    CASE probe'.v.fn = "NotificationListView.get" ->
                            NotificationList(Some(tenant), args.status, args.channel,
                                             OwnNotifications(tenant))
                      [] probe'.v.fn = "NotificationDetailView.get" ->
                            NotificationDetail(Some(tenant), args.pk,
                                               OwnNotifications(tenant))
                      [] probe'.v.fn = "DeadLetterListView.get" ->
                            DeadLetterList(Some(tenant), OwnNotifications(tenant),
                                           OwnDeadLetters(tenant))
         ]_vars

\* Both tenants have a dead-lettered notification; tenant acme asked for the
\* detail of the one of tenant globex and was answered not found
C36_Witness ==
    /\ probe.some
    /\ probe.v.fn = "NotificationDetailView.get"
    /\ probe.v.args.tenant = Some("acme")
    /\ probe.v.args.pk \in Rows
    /\ notifications[probe.v.args.pk].tenant = "globex"
    /\ DeadLettersOf(probe.v.args.pk) # {}
    /\ \E id \in Rows : notifications[id].tenant = "acme" /\ DeadLettersOf(id) # {}
    /\ probe.v.out.status_code = 404

----------------------------------------------------------------------------
\* The tenant has an API key that is active
HasActiveKey(tenant) ==
    \E k \in DOMAIN apiKeys : apiKeys[k].tenant = tenant /\ apiKeys[k].is_active

\* C37: whatever deactivate requests are made, and however the requests of
\* clients that authenticated with different keys of one tenant interleave,
\* every tenant keeps at least one active API key.
C37_TenantKeepsAnActiveKey ==
    \A tenant \in {"acme", "globex"} : HasActiveKey(tenant)
====
